---- MODULE Spec2Model ----
(***************************************************************************)
(* A model of rzw, a host-side driver for a Z-Wave controller dongle.      *)
(*                                                                         *)
(*  - the frame codec  (SerialMsg::parse / get_command / checksum),        *)
(*  - the serial transport and transaction engine (SerialDriver),          *)
(*  - the command-class codecs (Basic, SwitchBinary, Meter, PowerLevel),   *)
(*  - the nodes of a controller, which share the driver behind a mutex.    *)
(*                                                                         *)
(* Bytes are the integers 0..255.  The serial line is a sequence of stream *)
(* events: a byte, or Timeout for one port.read that times out.  Reading   *)
(* from an empty line times out (a silent line).                           *)
(***************************************************************************)
EXTENDS Integers, Sequences, FiniteSets, TLC

VARIABLES
    \* ---- frame codec harness
    frame,        \* the SerialMsg handed to get_command
    wire,         \* the byte slice handed to parse
    flip,         \* index (1-based) of the byte of wire replaced, 0 if none
    stage,        \* "init" | "encoded" | "flipped" | "raw" | "parsed"
    parsed,       \* result of SerialMsg::parse (driver/serial.rs, msg.rs)
    parsedDefs,   \* result of SerialMessage::parse (defs.rs)
    \* ---- SerialDriver
    message_id,   \* SerialDriver.message_id : u8
    messages,     \* SerialDriver.messages : Vec<SerialMsg>
    rx,           \* events the port will deliver to port.read, oldest first
    sent,         \* number of chunks the dongle has put on the line
    overflow_checks, \* build profile: TRUE = u8 overflow panics, FALSE = wraps
    last,         \* what the last driver call did and returned
    \* ---- nodes sharing the driver (basic/mod.rs)
    mutex,        \* Arc<Mutex<D>>: 0 if free, -1 if poisoned, else the thread
                  \* holding the guard
    pc,           \* per thread: where it is in the node operation it runs
    \* ---- command-class codec harness
    payload,      \* the bytes handed to a report decoder
    decoded,      \* what the decoder returned
    \* ---- Controller (basic/mod.rs)
    controller    \* Controller::new: how far it is, the ids, the nodes made

codecVars  == <<frame, wire, flip, stage, parsed, parsedDefs>>
driverVars == <<message_id, messages, rx, sent, overflow_checks, last>>
nodeVars   == <<mutex, pc, payload, decoded, controller>>
vars       == <<frame, wire, flip, stage, parsed, parsedDefs,
                message_id, messages, rx, sent, overflow_checks, last,
                mutex, pc, payload, decoded, controller>>

-----------------------------------------------------------------------------
(* Bytes and bit operations                                                *)

Byte == 0..255

\* bit k (as 0 or 1) of a ^ b, k a power of two
XorBit(a, b, k) == (((a \div k) % 2) + ((b \div k) % 2)) % 2

\* u8 ^ u8
Xor(a, b) ==
      XorBit(a, b, 1)       + 2  * XorBit(a, b, 2)
    + 4  * XorBit(a, b, 4)  + 8  * XorBit(a, b, 8)
    + 16 * XorBit(a, b, 16) + 32 * XorBit(a, b, 32)
    + 64 * XorBit(a, b, 64) + 128 * XorBit(a, b, 128)

\* `x as u8` for a usize x
AsU8(x) == x % 256

-----------------------------------------------------------------------------
(* Enumerations (driver/serial.rs)                                         *)

SOF == 1
ACK == 6
NAK == 21
CAN == 24
SerialMsgHeader == {SOF, ACK, NAK, CAN}

Request  == 0
Response == 1
SerialMsgType == {Request, Response}

AutoRoute == 4

FnNone                == 0
DiscoveryNodes        == 2
ApplicationCommandHandler == 4
SendData              == 19
GetNodeProtocolInfo   == 65

SerialMsgFunction ==
    {0, 2, 3, 4, 5, 6, 7, 8, 16, 17, 18, 19, 20, 21, 22, 23, 24,
     32, 33, 34, 35, 36, 48, 49, 50, 51, 52, 53, 54,
     65, 66, 68, 69, 70, 71, 72, 73, 74, 75, 76, 77,
     80, 81, 82, 83, 84, 85, 86, 87, 89, 96, 97, 98, 99,
     112, 113, 114, 115, 128, 129, 130, 131, 132, 144, 145, 149,
     160, 161, 162, 163, 164, 165, 166, 208}

-----------------------------------------------------------------------------
(* Results: Result<SerialMsg, Error>, errors named by their ErrorKind       *)

NoMsg == [header |-> 0, typ |-> 0, func |-> 0, data |-> <<>>]

Ok(m)  == [ok |-> TRUE,  msg |-> m,     err |-> "none"]
Err(e) == [ok |-> FALSE, msg |-> NoMsg, err |-> e]

Unset == Err("unset")

-----------------------------------------------------------------------------
(* SerialMsg                                                               *)

\* SerialMsg::new
SerialMsg_new(typ, func, data) ==
    [header |-> SOF, typ |-> typ, func |-> func, data |-> data]

\* SerialMsg::new_header
new_header(header) ==
    [header |-> header, typ |-> Response, func |-> FnNone, data |-> <<>>]

RECURSIVE XorRange(_, _, _)
\* data[lo] ^ ... ^ data[hi] (1-based), 0 for an empty range.  The loop
\* `for i in ..  { ret ^= data[i] }` folds left to right; ^ is associative,
\* so the range is split in halves to keep the evaluation shallow.
XorRange(data, lo, hi) ==
    IF lo > hi THEN 0
    ELSE IF lo = hi THEN data[lo]
    ELSE LET mid == (lo + hi) \div 2
         IN  Xor(XorRange(data, lo, mid), XorRange(data, mid + 1, hi))

\* a plausible slip: the header byte is folded into the checksum too
checksum_from_header(data) == Xor(255, XorRange(data, 1, Len(data)))

\* SerialMsg::checksum: 0xFF ^ data[1] ^ ... ^ data[n-1]  (0-based indices)
checksum(data) == Xor(255, XorRange(data, 2, Len(data)))

\* a plausible slip: the length byte counts one byte less
get_command_short_len(m) ==
    IF m.header # SOF THEN <<m.header>>
    ELSE LET buf == <<m.header, AsU8(Len(m.data) + 2), m.typ, m.func>> \o m.data
         IN  Append(buf, checksum(buf))

\* a plausible slip: the length byte stops at 255 instead of wrapping
get_command_saturating_len(m) ==
    IF m.header # SOF THEN <<m.header>>
    ELSE LET n == IF Len(m.data) + 3 > 255 THEN 255 ELSE Len(m.data) + 3
             buf == <<m.header, n, m.typ, m.func>> \o m.data
         IN  Append(buf, checksum(buf))

\* SerialMsg::get_command
get_command(m) ==
    IF m.header # SOF THEN <<m.header>>
    ELSE LET buf == <<m.header, AsU8(Len(m.data) + 3), m.typ, m.func>> \o m.data
         IN  Append(buf, checksum(buf))

\* a plausible slip: the checksum comparison is left out
parse_no_checksum(data) ==
    IF Len(data) < 1 THEN Err("UnknownZWave")
    ELSE IF data[1] \notin SerialMsgHeader THEN Err("UnknownZWave")
    ELSE IF data[1] # SOF THEN Ok(new_header(data[1]))
    ELSE IF Len(data) < 5 THEN Err("UnknownZWave")
    ELSE IF data[2] # AsU8(Len(data) - 2) THEN Err("UnknownZWave")
    ELSE IF data[3] \notin SerialMsgType THEN Err("UnknownZWave")
    ELSE IF data[4] \notin SerialMsgFunction THEN Err("UnknownZWave")
    ELSE Ok(SerialMsg_new(data[3], data[4],
                          IF Len(data) > 5 THEN SubSeq(data, 5, Len(data) - 1)
                          ELSE <<>>))

\* a plausible slip: every header byte is sent through the SOF checks
parse_header_as_sof(data) ==
    IF Len(data) < 1 THEN Err("UnknownZWave")
    ELSE IF data[1] \notin SerialMsgHeader THEN Err("UnknownZWave")
    ELSE IF Len(data) < 5 THEN Err("UnknownZWave")
    ELSE IF data[2] # AsU8(Len(data) - 2) THEN Err("UnknownZWave")
    ELSE IF checksum(SubSeq(data, 1, Len(data) - 1)) # data[Len(data)]
         THEN Err("UnknownZWave")
    ELSE IF data[3] \notin SerialMsgType THEN Err("UnknownZWave")
    ELSE IF data[4] \notin SerialMsgFunction THEN Err("UnknownZWave")
    ELSE Ok(SerialMsg_new(data[3], data[4],
                          IF Len(data) > 5 THEN SubSeq(data, 5, Len(data) - 1)
                          ELSE <<>>))

\* a plausible slip: the payload slice runs to the end of the frame and
\* so takes the checksum byte with it
parse_payload_to_end(data) ==
    IF Len(data) < 1 THEN Err("UnknownZWave")
    ELSE IF data[1] \notin SerialMsgHeader THEN Err("UnknownZWave")
    ELSE IF data[1] # SOF THEN Ok(new_header(data[1]))
    ELSE IF Len(data) < 5 THEN Err("UnknownZWave")
    ELSE IF data[2] # AsU8(Len(data) - 2) THEN Err("UnknownZWave")
    ELSE IF checksum(SubSeq(data, 1, Len(data) - 1)) # data[Len(data)]
         THEN Err("UnknownZWave")
    ELSE IF data[3] \notin SerialMsgType THEN Err("UnknownZWave")
    ELSE IF data[4] \notin SerialMsgFunction THEN Err("UnknownZWave")
    ELSE Ok(SerialMsg_new(data[3], data[4],
                          IF Len(data) > 5 THEN SubSeq(data, 5, Len(data))
                          ELSE <<>>))

\* SerialMsg::parse (driver/serial.rs; msg.rs is the same code)
parse(data) ==
    IF Len(data) < 1 THEN Err("UnknownZWave")
    ELSE IF data[1] \notin SerialMsgHeader THEN Err("UnknownZWave")
    ELSE IF data[1] # SOF THEN Ok(new_header(data[1]))
    ELSE IF Len(data) < 5 THEN Err("UnknownZWave")
    ELSE IF data[2] # AsU8(Len(data) - 2) THEN Err("UnknownZWave")
    ELSE IF checksum(SubSeq(data, 1, Len(data) - 1)) # data[Len(data)]
         THEN Err("UnknownZWave")
    ELSE IF data[3] \notin SerialMsgType THEN Err("UnknownZWave")
    ELSE IF data[4] \notin SerialMsgFunction THEN Err("UnknownZWave")
    ELSE Ok(SerialMsg_new(data[3], data[4],
                          IF Len(data) > 5 THEN SubSeq(data, 5, Len(data) - 1)
                          ELSE <<>>))

\* SerialMessage::parse (defs.rs): the same steps, but the header and the
\* type conversions (TryFrom<u8>) fail with Io(InvalidData)
SerialMessage_parse(data) ==
    IF Len(data) < 1 THEN Err("UnknownZWave")
    ELSE IF data[1] \notin SerialMsgHeader THEN Err("Io(InvalidData)")
    ELSE IF data[1] # SOF THEN Ok(new_header(data[1]))
    ELSE IF Len(data) < 5 THEN Err("UnknownZWave")
    ELSE IF data[2] # AsU8(Len(data) - 2) THEN Err("UnknownZWave")
    ELSE IF checksum(SubSeq(data, 1, Len(data) - 1)) # data[Len(data)]
         THEN Err("UnknownZWave")
    ELSE IF data[3] \notin SerialMsgType THEN Err("Io(InvalidData)")
    ELSE IF data[4] \notin SerialMsgFunction THEN Err("UnknownZWave")
    ELSE Ok(SerialMsg_new(data[3], data[4],
                          IF Len(data) > 5 THEN SubSeq(data, 5, Len(data) - 1)
                          ELSE <<>>))

-----------------------------------------------------------------------------
(* The serial port                                                         *)

\* a stream event that is no byte: one port.read ends with Io(TimedOut)
Timeout == 256

\* port.read(&mut buf) on the line s: the byte (or Timeout) and the line left
PortRead(s) ==
    IF s = <<>> THEN [b |-> Timeout, rest |-> <<>>]
    ELSE [b |-> Head(s), rest |-> Tail(s)]

\* index of the first Timeout among the first n events of s, 0 if none
FirstTimeout(s, n) ==
    LET m  == IF Len(s) < n THEN Len(s) ELSE n
        ix == {i \in 1..m : s[i] = Timeout}
    IN  IF ix = {} THEN 0 ELSE CHOOSE i \in ix : \A j \in ix : i <= j

\* `for _ in 0..len { port.read(&mut buf)?; result.push(buf[0]) }`
\* to: a read timed out, bytes: what was read, rest: the line left
PortReadN(s, n) ==
    LET k == FirstTimeout(s, n)
    IN  IF k > 0
        THEN [to |-> TRUE, bytes |-> SubSeq(s, 1, k - 1),
              rest |-> SubSeq(s, k + 1, Len(s))]
        ELSE IF Len(s) < n
        THEN [to |-> TRUE, bytes |-> s, rest |-> <<>>]
        ELSE [to |-> FALSE, bytes |-> SubSeq(s, 1, n),
              rest |-> SubSeq(s, n + 1, Len(s))]

-----------------------------------------------------------------------------
(* SerialDriver: reading.  Each function is written as a chain of steps,   *)
(* one operator per step, the value a step computes handed to the next.    *)

\* what a read function hands back: its Result, the line left, the bytes it
\* wrote to the port
Rd(res, rest, wr) == [res |-> res, rest |-> rest, wr |-> wr]

\* a plausible slip: every complete frame is acknowledged, parsed or not
read_single_msg_answer_always_ack(m, rest) ==
    Rd(m, rest, get_command(new_header(ACK)))

\* a plausible slip: no answer is written for a frame
read_single_msg_answer_silent(m, rest) == Rd(m, rest, <<>>)

\* read_single_msg, a complete frame was read and parsed to m: ACK if it
\* parsed, NAK if not; return m
read_single_msg_answer(m, rest) ==
    Rd(m, rest, IF m.ok THEN get_command(new_header(ACK))
                ELSE get_command(new_header(NAK)))

\* a plausible slip: a frame that breaks off is answered with NAK
read_single_msg_body_nak_on_timeout(len, body) ==
    IF body.to THEN Rd(Err("Io(TimedOut)"), body.rest, <<NAK>>)
    ELSE read_single_msg_answer(parse(<<SOF, len>> \o body.bytes), body.rest)

\* read_single_msg, the len bytes after the length byte were read (or not)
read_single_msg_body(len, body) ==
    IF body.to THEN Rd(Err("Io(TimedOut)"), body.rest, <<>>)
    ELSE read_single_msg_answer(parse(<<SOF, len>> \o body.bytes), body.rest)

\* a plausible slip: the checksum is taken to follow the bytes the length
\* counts, and one byte more is read
read_single_msg_length_and_checksum(l) ==
    IF l.b = Timeout THEN Rd(Err("Io(TimedOut)"), l.rest, <<>>)
    ELSE read_single_msg_body(l.b, PortReadN(l.rest, l.b + 1))

\* read_single_msg, the length byte l was read (or not)
read_single_msg_length(l) ==
    IF l.b = Timeout THEN Rd(Err("Io(TimedOut)"), l.rest, <<>>)
    ELSE read_single_msg_body(l.b, PortReadN(l.rest, l.b))

\* read_single_msg, the first byte h was read (or not)
read_single_msg_header(h) ==
    IF h.b = Timeout THEN Rd(Err("Io(TimedOut)"), h.rest, <<>>)
    ELSE IF h.b = SOF THEN read_single_msg_length(PortRead(h.rest))
    ELSE IF h.b = ACK THEN Rd(Ok(new_header(ACK)), h.rest, <<>>)
    ELSE IF h.b = NAK THEN Rd(Ok(new_header(NAK)), h.rest, <<>>)
    ELSE IF h.b = CAN THEN Rd(Ok(new_header(CAN)), h.rest, <<>>)
    ELSE Rd(Err("UnknownZWave"), h.rest, <<>>)

\* SerialDriver::read_single_msg
read_single_msg(s) == read_single_msg_header(PortRead(s))

RECURSIVE read_single_msg_rty(_, _)
RECURSIVE read_single_msg_rty_match(_, _)

\* a plausible slip: every error is retried, not only Io(TimedOut)
read_single_msg_rty_match_any_error(r, counter) ==
    IF ~r.res.ok THEN read_single_msg_rty(r.rest, counter) ELSE r

\* read_single_msg_rty, `match self.read_single_msg()` with the counter
\* already counted down
read_single_msg_rty_match(r, counter) ==
    IF ~r.res.ok /\ r.res.err = "Io(TimedOut)"
    THEN read_single_msg_rty(r.rest, counter)
    ELSE r

\* SerialDriver::read_single_msg_rty(&tries)
read_single_msg_rty(s, counter) ==
    IF counter <= 0 THEN Rd(Err("Io(TimedOut)"), s, <<>>)
    ELSE read_single_msg_rty_match(read_single_msg(s), counter - 1)

\* tries of the drain, of the ACK wait of write, of the Response wait
DrainTries == 3
WriteAckTries == 10
ResponseTries == 10

\* what read_all_msg hands back.  status: "ok" (Ok(true)), "err" (Err(err))
\* or "panic" (index out of bounds); msgs: self.messages afterwards;
\* got: the frames read, in order; queued: those of them that were pushed
Drained(status, err, rest, wr, msgs, got, queued) ==
    [status |-> status, err |-> err, rest |-> rest, wr |-> wr,
     msgs |-> msgs, got |-> got, queued |-> queued]

\* the `continue` test of read_all_msg: "skip", "panic" (m.data[1] or
\* m.data[2] is out of bounds) or "store" (go on to the store test).
\* Rust evaluates && left to right and stops at the first false operand.
SkipTest(m) ==
    IF ~(m.header = SOF /\ m.typ = Request /\ m.func = SendData) THEN "store"
    ELSE IF Len(m.data) < 2 THEN "panic"
    ELSE IF m.data[2] # 0 THEN "store"
    ELSE IF Len(m.data) < 3 THEN "panic"
    ELSE IF m.data[3] # 0 THEN "store"
    ELSE "skip"

\* a plausible slip: every SOF frame is stored, with or without payload
StoreTest_any_sof(m) == m.header = SOF

\* the store test of read_all_msg
StoreTest(m) == m.header = SOF /\ Len(m.data) >= 1

RECURSIVE read_all_msg_loop(_, _, _, _, _)

\* read_all_msg, the Ok(m) arm: t is SkipTest(m)
read_all_msg_store(m, t, rest, msgs, wr, got, queued) ==
    IF t = "panic"
    THEN Drained("panic", "none", rest, wr, msgs, Append(got, m), queued)
    ELSE IF t = "store" /\ StoreTest(m)
    THEN read_all_msg_loop(rest, Append(msgs, m), wr,
                           Append(got, m), Append(queued, m))
    ELSE read_all_msg_loop(rest, msgs, wr, Append(got, m), queued)

\* read_all_msg, `match self.read_single_msg_rty(&3)`
read_all_msg_match(r, msgs, wr, got, queued) ==
    IF ~r.res.ok
    THEN IF r.res.err # "Io(TimedOut)"
         THEN Drained("err", r.res.err, r.rest, wr \o r.wr, msgs, got, queued)
         ELSE Drained("ok", "none", r.rest, wr \o r.wr, msgs, got, queued)
    ELSE read_all_msg_store(r.res.msg, SkipTest(r.res.msg), r.rest, msgs,
                            wr \o r.wr, got, queued)

\* read_all_msg, one turn of the loop
read_all_msg_loop(s, msgs, wr, got, queued) ==
    read_all_msg_match(read_single_msg_rty(s, DrainTries),
                       msgs, wr, got, queued)

\* SerialDriver::read_all_msg
read_all_msg(s, msgs) == read_all_msg_loop(s, msgs, <<>>, <<>>, <<>>)

-----------------------------------------------------------------------------
(* SerialDriver: the message-id counter                                    *)

\* a plausible slip: the counter is left alone and the same id handed out
get_next_msg_id_stuck(id, checks) ==
    [panic |-> FALSE, id |-> IF id = 0 THEN 1 ELSE id]

\* a plausible slip: 0x00 is not jumped over
get_next_msg_id_no_skip(id, checks) ==
    IF id + 1 > 255 /\ checks THEN [panic |-> TRUE, id |-> id]
    ELSE [panic |-> FALSE, id |-> (id + 1) % 256]

\* SerialDriver::get_next_msg_id on a counter id.  `self.message_id += 1` on
\* a u8: with overflow checks (the dev profile) 255 + 1 panics, without them
\* (the release profile) it wraps to 0
get_next_msg_id(id, checks) ==
    IF id + 1 > 255 /\ checks THEN [panic |-> TRUE, id |-> id]
    ELSE LET a == (id + 1) % 256
         IN  [panic |-> FALSE, id |-> IF a = 0 THEN a + 1 ELSE a]

-----------------------------------------------------------------------------
(* SerialDriver: the Driver trait                                          *)

\* return values: Ok(id) of write, Ok(data) of read, Err(kind), or a panic
RetId(id)     == [kind |-> "Ok",    id |-> id, data |-> <<>>, err |-> "none"]
RetData(data) == [kind |-> "Ok",    id |-> 0,  data |-> data, err |-> "none"]
RetErr(e)     == [kind |-> "Err",   id |-> 0,  data |-> <<>>, err |-> e]
RetPanic      == [kind |-> "Panic", id |-> 0,  data |-> <<>>, err |-> "none"]

\* the driver's fields before a call
Pre(id, msgs) == [id |-> id, msgs |-> msgs]

\* what a call did: op and arg name it, pre holds message_id and messages
\* as they were before it, ret is its return value, tx the bytes it wrote to
\* the port in order, req the request frame it wrote (<<>> if none), drain
\* the status of its read_all_msg, first and second the results of its two
\* read_single_msg_rty waits (Unset if not reached), got the frames it read
\* from the port in order, queued those it pushed
Call(op, arg, ret, tx, req, drain, first, second, got, queued) ==
    [op |-> op, arg |-> arg, pre |-> Pre(0, <<>>), ret |-> ret, tx |-> tx,
     req |-> req, drain |-> drain, first |-> first, second |-> second,
     got |-> got, queued |-> queued]

NoCall == Call("none", <<>>, RetErr("none"), <<>>, <<>>, "none",
               Unset, Unset, <<>>, <<>>)

\* the driver after a call, and the record of the call
After(id, msgs, line, call) ==
    [message_id |-> id, messages |-> msgs, rx |-> line, call |-> call]

\* the driver after a call that found message_id = id and messages = msgs:
\* the record of the call holds the two fields as they were before it
CalledFrom(a, id, msgs) == [a EXCEPT !.call.pre = Pre(id, msgs)]

\* the frames of a Result as a list: one frame if Ok, none if Err
Frames(res) == IF res.ok THEN <<res.msg>> ELSE <<>>

\* the record of a write call
WriteCall(cmd, ret, tx, req, d, first, second, got) ==
    Call("write", cmd, ret, tx, req, d.status, first, second, got, d.queued)

\* a plausible slip: only the first payload byte of the Response is looked at
Refused_first_byte_only(m) ==
    m.header # SOF \/ m.typ # Response \/ m.func # SendData
        \/ Len(m.data) < 1 \/ m.data[1] # 1

\* write, the test of the second frame: "wrong message is received"
Refused(m) ==
    m.header # SOF \/ m.typ # Response \/ m.func # SendData \/ m.data # <<1>>

\* write, `match self.read_single_msg_rty(&10)` of "read the driver accept"
write_response(cmd, m_id, d, req, r1, r2) ==
    IF ~r2.res.ok
    THEN After(m_id, d.msgs, r2.rest,
               WriteCall(cmd, RetErr(r2.res.err),
                         d.wr \o req \o r1.wr \o r2.wr, req, d,
                         r1.res, r2.res, d.got \o <<r1.res.msg>>))
    ELSE IF Refused(r2.res.msg)
    THEN After(m_id, d.msgs, r2.rest,
               WriteCall(cmd, RetErr("Io(InvalidData)"),
                         d.wr \o req \o r1.wr \o r2.wr, req, d,
                         r1.res, r2.res, d.got \o <<r1.res.msg, r2.res.msg>>))
    ELSE After(m_id, d.msgs, r2.rest,
               WriteCall(cmd, RetId(m_id),
                         d.wr \o req \o r1.wr \o r2.wr, req, d,
                         r1.res, r2.res, d.got \o <<r1.res.msg, r2.res.msg>>))

\* a plausible slip: a refused request gives its id back to the counter
write_ack_gives_id_back(cmd, m_id, d, req, r1) ==
    IF ~r1.res.ok
    THEN After(m_id - 1, d.msgs, r1.rest,
               WriteCall(cmd, RetErr(r1.res.err), d.wr \o req \o r1.wr, req,
                         d, r1.res, Unset, d.got))
    ELSE IF r1.res.msg.header # ACK
    THEN After(m_id - 1, d.msgs, r1.rest,
               WriteCall(cmd, RetErr("Io(InvalidData)"),
                         d.wr \o req \o r1.wr, req, d, r1.res, Unset,
                         d.got \o <<r1.res.msg>>))
    ELSE write_response(cmd, m_id, d, req, r1,
                        read_single_msg_rty(r1.rest, ResponseTries))

\* a plausible slip: a request that was not ACKed is put on the port once
\* more before write gives up
write_ack_sends_again(cmd, m_id, d, req, r1) ==
    IF ~r1.res.ok
    THEN After(m_id, d.msgs, r1.rest,
               WriteCall(cmd, RetErr(r1.res.err),
                         d.wr \o req \o r1.wr \o req, req,
                         d, r1.res, Unset, d.got))
    ELSE IF r1.res.msg.header # ACK
    THEN After(m_id, d.msgs, r1.rest,
               WriteCall(cmd, RetErr("Io(InvalidData)"),
                         d.wr \o req \o r1.wr \o req, req, d, r1.res, Unset,
                         d.got \o <<r1.res.msg>>))
    ELSE write_response(cmd, m_id, d, req, r1,
                        read_single_msg_rty(r1.rest, ResponseTries))

\* write, `match self.read_single_msg_rty(&10)` of "read the ACK accept
\* package"
write_ack(cmd, m_id, d, req, r1) ==
    IF ~r1.res.ok
    THEN After(m_id, d.msgs, r1.rest,
               WriteCall(cmd, RetErr(r1.res.err), d.wr \o req \o r1.wr, req,
                         d, r1.res, Unset, d.got))
    ELSE IF r1.res.msg.header # ACK
    THEN After(m_id, d.msgs, r1.rest,
               WriteCall(cmd, RetErr("Io(InvalidData)"),
                         d.wr \o req \o r1.wr, req, d, r1.res, Unset,
                         d.got \o <<r1.res.msg>>))
    ELSE write_response(cmd, m_id, d, req, r1,
                        read_single_msg_rty(r1.rest, ResponseTries))

\* a plausible slip: the transmission type and the id are put in front
write_request_id_first(message, m_id) ==
    get_command(SerialMsg_new(Request, SendData,
                              <<AutoRoute, m_id>> \o message))

\* write: message.push(AutoRoute); message.push(m_id);
\* SerialMsg::new(Request, SendData, message).get_command()
write_request(message, m_id) ==
    get_command(SerialMsg_new(Request, SendData,
                              message \o <<AutoRoute, m_id>>))

\* write, port.write(msg.get_command()) and the wait for the ACK
write_send(cmd, m_id, d, req) ==
    write_ack(cmd, m_id, d, req, read_single_msg_rty(d.rest, WriteAckTries))

\* write, `let m_id = self.get_next_msg_id()`: n is what it hands back
write_id(cmd, id, d, n) ==
    IF n.panic
    THEN After(id, d.msgs, d.rest,
               WriteCall(cmd, RetPanic, d.wr, <<>>, d, Unset, Unset, d.got))
    ELSE write_send(cmd, n.id, d, write_request(cmd, n.id))

\* a plausible slip: the message id is taken before the drain is looked at
write_drained_id_first(cmd, id, checks, d) ==
    IF d.status = "panic"
    THEN After(id, d.msgs, d.rest,
               WriteCall(cmd, RetPanic, d.wr, <<>>, d, Unset, Unset, d.got))
    ELSE IF d.status = "err" /\ ~get_next_msg_id(id, checks).panic
    THEN After(get_next_msg_id(id, checks).id, d.msgs, d.rest,
               WriteCall(cmd, RetErr(d.err), d.wr, <<>>, d, Unset, Unset,
                         d.got))
    ELSE write_id(cmd, id, d, get_next_msg_id(id, checks))

\* write, `self.read_all_msg()?`: d is what it hands back
write_drained(cmd, id, checks, d) ==
    IF d.status = "panic"
    THEN After(id, d.msgs, d.rest,
               WriteCall(cmd, RetPanic, d.wr, <<>>, d, Unset, Unset, d.got))
    ELSE IF d.status = "err"
    THEN After(id, d.msgs, d.rest,
               WriteCall(cmd, RetErr(d.err), d.wr, <<>>, d, Unset, Unset,
                         d.got))
    ELSE write_id(cmd, id, d, get_next_msg_id(id, checks))

\* Driver::write for SerialDriver
write(cmd, id, msgs, line, checks) ==
    write_drained(cmd, id, checks, read_all_msg(line, msgs))

\* the record of a read call
ReadCall(ret, d) ==
    Call("read", <<>>, ret, d.wr, <<>>, d.status, Unset, Unset,
         d.got, d.queued)

\* a plausible slip: the newest message is handed out
read_drained_newest(id, d) ==
    IF d.status = "panic" THEN After(id, d.msgs, d.rest, ReadCall(RetPanic, d))
    ELSE IF d.status = "err"
    THEN After(id, d.msgs, d.rest, ReadCall(RetErr(d.err), d))
    ELSE IF Len(d.msgs) < 1
    THEN After(id, d.msgs, d.rest, ReadCall(RetErr("Io(Other)"), d))
    ELSE After(id, SubSeq(d.msgs, 1, Len(d.msgs) - 1), d.rest,
               ReadCall(RetData(d.msgs[Len(d.msgs)].data), d))

\* read, `self.read_all_msg()?` done: d is what it handed back
read_drained(id, d) ==
    IF d.status = "panic" THEN After(id, d.msgs, d.rest, ReadCall(RetPanic, d))
    ELSE IF d.status = "err"
    THEN After(id, d.msgs, d.rest, ReadCall(RetErr(d.err), d))
    ELSE IF Len(d.msgs) < 1
    THEN After(id, d.msgs, d.rest, ReadCall(RetErr("Io(Other)"), d))
    ELSE After(id, Tail(d.msgs), d.rest, ReadCall(RetData(Head(d.msgs).data), d))

\* Driver::read for SerialDriver
read(id, msgs, line) == read_drained(id, read_all_msg(line, msgs))

-----------------------------------------------------------------------------
(* SerialDriver: get_node_ids and get_node_generic_class                    *)

\* tries of the ACK wait and of the Response wait of the two functions
QueryAckTries == 5
QueryResponseTries == 10

\* length of a DiscoveryNodes payload and the value of its byte 2
NodeIdsLen == 34
NodeIdsMarker == 29
\* `for i in 3..31` and `for j in 0..7`: the upper ends are not in the range
FirstMaskByte == 3
EndMaskByte == 31
EndMaskBit == 7
\* length of a GetNodeProtocolInfo payload
ProtocolInfoLen == 6

\* enum GenericType (driver/mod.rs), by byte value
Unknown == 0
GenericType ==
    {0, 1, 2, 3, 4, 6, 7, 9, 8, 15, 16, 17, 18, 19, 20, 21, 22, 23, 24,
     32, 33, 34, 48, 49, 64, 80, 161, 255}

\* Ok(GenericType) of get_node_generic_class
RetType(g) == [kind |-> "Ok", id |-> g, data |-> <<>>, err |-> "none"]

\* get_bit_at(input, n)
get_bit_at(input, n) == IF n < 8 THEN (input \div (2^n)) % 2 # 0 ELSE FALSE

\* the pairs <<i, j>> in the order the two loops of get_node_ids visit them
MaskLoop ==
    [k \in 1..((EndMaskByte - FirstMaskByte) * EndMaskBit) |->
        <<FirstMaskByte + ((k - 1) \div EndMaskBit), (k - 1) % EndMaskBit>>]

\* n = ((i-3) * 8) + (j as usize + 1); nodes.push(n as u8)
NodeIdOf(ij) == AsU8(((ij[1] - FirstMaskByte) * 8) + (ij[2] + 1))

\* the node ids pushed for the pairs whose bit is set
NodeIdsOf(hits) == [k \in DOMAIN hits |-> NodeIdOf(hits[k])]

\* a plausible slip: the marker byte data[2] is not looked at
get_node_ids_decode_no_marker(data) ==
    IF Len(data) # NodeIdsLen THEN RetErr("UnknownZWave")
    ELSE RetData(NodeIdsOf(SelectSeq(MaskLoop,
                     LAMBDA ij : get_bit_at(data[ij[1] + 1], ij[2]))))

\* get_node_ids from `let data = msg.data` on
get_node_ids_decode(data) ==
    IF Len(data) # NodeIdsLen \/ data[3] # NodeIdsMarker
    THEN RetErr("UnknownZWave")
    ELSE RetData(NodeIdsOf(SelectSeq(MaskLoop,
                     LAMBDA ij : get_bit_at(data[ij[1] + 1], ij[2]))))

\* a plausible slip: a byte that is no generic type is handed out as it is
GenericType_from_u8_any(b) == b

\* GenericType::from_u8(b).unwrap_or(GenericType::Unknown)
GenericType_from_u8(b) == IF b \in GenericType THEN b ELSE Unknown

\* get_node_generic_class from `let data = msg.data` on
get_node_generic_class_decode(data) ==
    IF Len(data) # ProtocolInfoLen THEN RetErr("UnknownZWave")
    ELSE RetType(GenericType_from_u8(data[5]))

\* the part that differs between the two functions
QueryDecode(op, data) ==
    IF op = "get_node_ids" THEN get_node_ids_decode(data)
    ELSE get_node_generic_class_decode(data)

\* the record of a call of one of the two functions
QueryCall(op, arg, ret, tx, req, d, first, second, got) ==
    Call(op, arg, ret, tx, req, d.status, first, second, got, d.queued)

\* `let msg = self.read_single_msg_rty(&10)?` and what follows
query_response(op, arg, id, d, req, r1, r2) ==
    IF ~r2.res.ok
    THEN After(id, d.msgs, r2.rest,
               QueryCall(op, arg, RetErr(r2.res.err),
                         d.wr \o req \o r1.wr \o r2.wr, req, d,
                         r1.res, r2.res, d.got \o <<r1.res.msg>>))
    ELSE After(id, d.msgs, r2.rest,
               QueryCall(op, arg, QueryDecode(op, r2.res.msg.data),
                         d.wr \o req \o r1.wr \o r2.wr, req, d,
                         r1.res, r2.res, d.got \o <<r1.res.msg, r2.res.msg>>))

\* `match self.read_single_msg_rty(&5)`: the first message must be ACK
query_ack(op, arg, id, d, req, r1) ==
    IF ~r1.res.ok
    THEN After(id, d.msgs, r1.rest,
               QueryCall(op, arg, RetErr(r1.res.err), d.wr \o req \o r1.wr,
                         req, d, r1.res, Unset, d.got))
    ELSE IF r1.res.msg.header # ACK
    THEN After(id, d.msgs, r1.rest,
               QueryCall(op, arg, RetErr("Io(InvalidData)"),
                         d.wr \o req \o r1.wr, req, d, r1.res, Unset,
                         d.got \o <<r1.res.msg>>))
    ELSE query_response(op, arg, id, d, req, r1,
                        read_single_msg_rty(r1.rest, QueryResponseTries))

\* `self.read_all_msg()?` done: d is what it handed back; the request is
\* written and the first reply read
query_drained(op, arg, id, d, req) ==
    IF d.status = "panic"
    THEN After(id, d.msgs, d.rest,
               QueryCall(op, arg, RetPanic, d.wr, <<>>, d, Unset, Unset, d.got))
    ELSE IF d.status = "err"
    THEN After(id, d.msgs, d.rest,
               QueryCall(op, arg, RetErr(d.err), d.wr, <<>>, d, Unset, Unset,
                         d.got))
    ELSE query_ack(op, arg, id, d, req,
                   read_single_msg_rty(d.rest, QueryAckTries))

\* Driver::get_node_ids for SerialDriver
get_node_ids(id, msgs, line) ==
    query_drained("get_node_ids", <<>>, id, read_all_msg(line, msgs),
                  get_command(SerialMsg_new(Request, DiscoveryNodes, <<>>)))

\* Driver::get_node_generic_class for SerialDriver
get_node_generic_class(node_id, id, msgs, line) ==
    query_drained("get_node_generic_class", <<node_id>>, id,
                  read_all_msg(line, msgs),
                  get_command(SerialMsg_new(Request, GetNodeProtocolInfo,
                                            <<node_id>>)))

-----------------------------------------------------------------------------
(* Commands handed to write (cc/msg.rs, cmds/basic.rs, cmds/switch_binary.rs) *)

BASIC == 32
SWITCH_BINARY == 37

\* Message::to_vec: node id, data length + 2, command class, command, data
Message_to_vec(node_id, cmd_class, cmd, data) ==
    <<node_id, AsU8(Len(data) + 2), cmd_class, cmd>> \o data

\* Basic::set(node_id, value)
Basic_set(node_id, value) == Message_to_vec(node_id, BASIC, 1, <<value>>)

\* SwitchBinary::get(node_id)
SwitchBinary_get(node_id) == Message_to_vec(node_id, SWITCH_BINARY, 2, <<>>)

\* Basic::get(node_id)
Basic_get(node_id) == Message_to_vec(node_id, BASIC, 2, <<>>)

\* SwitchBinary::set(node_id, value): true is 0xFF, false is 0x00
SwitchBinary_set(node_id, value) ==
    Message_to_vec(node_id, SWITCH_BINARY, 1, <<IF value THEN 255 ELSE 0>>)

-----------------------------------------------------------------------------
(* Report decoders (cmds/basic.rs, cmds/switch_binary.rs, cmds/meter.rs,    *)
(* cmds/powerlevel.rs).  msg is the payload read returns; msg[k] of the    *)
(* code is msg[k+1] here.                                                  *)

METER == 50
POWER_LEVEL == 115

\* Result<T, Error> of a decoder
DecOk(v)  == [ok |-> TRUE,  val |-> v, err |-> "none"]
DecErr(e) == [ok |-> FALSE, val |-> 0, err |-> e]

\* a plausible slip: the command class of the report is not looked at
Basic_report_any_class(msg) ==
    IF Len(msg) # 6 THEN DecErr("UnknownZWave")
    ELSE IF msg[5] # 3 THEN DecErr("UnknownZWave")
    ELSE DecOk(msg[6])

\* Basic::report(msg)
Basic_report(msg) ==
    IF Len(msg) # 6 THEN DecErr("UnknownZWave")
    ELSE IF msg[4] # BASIC \/ msg[5] # 3 THEN DecErr("UnknownZWave")
    ELSE DecOk(msg[6])

\* a plausible slip: every value byte but 0x00 counts as on
SwitchBinary_report_nonzero(msg) ==
    IF Len(msg) # 6 THEN DecErr("UnknownZWave")
    ELSE IF msg[4] # SWITCH_BINARY \/ msg[5] # 3 THEN DecErr("UnknownZWave")
    ELSE DecOk(msg[6] # 0)

\* SwitchBinary::report(msg)
SwitchBinary_report(msg) ==
    IF Len(msg) # 6 THEN DecErr("UnknownZWave")
    ELSE IF msg[4] # SWITCH_BINARY \/ msg[5] # 3 THEN DecErr("UnknownZWave")
    ELSE DecOk(IF msg[6] < 255 THEN FALSE ELSE TRUE)

\* enum MeterType
Electric == 1
Gas == 2
Water == 3
MeterType == {Electric, Gas, Water}

\* x, the bits of an unsigned integer of that width, read as a signed one
\* (the casts `as i8`, `as i16`, `as i32` and the shifts within the width)
Signed(x, bits) == IF x >= 2^(bits - 1) THEN x - 2^bits ELSE x

\* a plausible slip: the scale is masked with three bits and takes the
\* lowest bit of the precision with it
get_precision_scale_size_wide_scale(input) ==
    [precision |-> input \div 32, scale |-> (input \div 8) % 8,
     size |-> input % 8]

\* Meter::get_precision_scale_size(input): bits 7..5, 4..3, 2..0
get_precision_scale_size(input) ==
    [precision |-> input \div 32, scale |-> (input \div 8) % 4,
     size |-> input % 8]

\* an f64 that is mant / 10^prec
Decimal(mant, prec) == [mant |-> mant, prec |-> prec]

\* a plausible slip: the bytes are taken as an unsigned number
calc_value_unsigned(bytes, precision) ==
    IF Len(bytes) = 1 THEN Decimal(bytes[1], precision)
    ELSE IF Len(bytes) = 2
    THEN Decimal(bytes[1] * 256 + bytes[2], precision)
    ELSE IF Len(bytes) = 4
    THEN Decimal((bytes[1] % 128) * 16777216 + bytes[2] * 65536
                 + bytes[3] * 256 + bytes[4], precision)
    ELSE Decimal(0, 0)

\* Meter::calc_value(bytes, precision): a signed big-endian integer of 1, 2
\* or 4 bytes divided by 10^precision; 0.0 for every other length.  Of the
\* 4 bytes the first, shifted left by 24 within an i32, carries the sign.
calc_value(bytes, precision) ==
    IF Len(bytes) = 1 THEN Decimal(Signed(bytes[1], 8), precision)
    ELSE IF Len(bytes) = 2
    THEN Decimal(Signed(bytes[1] * 256 + bytes[2], 16), precision)
    ELSE IF Len(bytes) = 4
    THEN Decimal(Signed(bytes[1], 8) * 16777216 + bytes[2] * 65536
                 + bytes[3] * 256 + bytes[4], precision)
    ELSE Decimal(0, 0)

\* MeterData::<variant>(data)
MeterData(variant, data) == [variant |-> variant, data |-> data]

\* Meter::to_meter_data(data, typ, scale)
to_meter_data(data, typ, scale) ==
    IF typ = Electric /\ scale = 0 THEN DecOk(MeterData("Electric_kWh", data))
    ELSE IF typ = Electric /\ scale = 1
    THEN DecOk(MeterData("Electric_kVAh", data))
    ELSE IF typ = Electric /\ scale = 2
    THEN DecOk(MeterData("Electric_W", data))
    ELSE IF typ = Electric /\ scale = 3
    THEN DecOk(MeterData("Electric_PulseCount", data))
    ELSE IF typ = Gas /\ scale = 0 THEN DecOk(MeterData("Gas_meter2", data))
    ELSE IF typ = Gas /\ scale = 1 THEN DecOk(MeterData("Gas_feet2", data))
    ELSE IF typ = Gas /\ scale = 3
    THEN DecOk(MeterData("Gas_PulseCount", data))
    ELSE IF typ = Water /\ scale = 0
    THEN DecOk(MeterData("Water_meter2", data))
    ELSE IF typ = Water /\ scale = 1 THEN DecOk(MeterData("Water_feet2", data))
    ELSE IF typ = Water /\ scale = 2
    THEN DecOk(MeterData("Water_Gallons", data))
    ELSE IF typ = Water /\ scale = 3
    THEN DecOk(MeterData("Water_PulseCount", data))
    ELSE DecErr("UnknownZWave")

\* a plausible slip: payloads longer than 7 + size are let through
Meter_report_value_min_len(msg, pss) ==
    IF Len(msg) < 7 + pss.size THEN DecErr("UnknownZWave")
    ELSE to_meter_data(calc_value(SubSeq(msg, 8, 7 + pss.size), pss.precision),
                       msg[6], pss.scale)

\* Meter::report from the length test on: pss is get_precision_scale_size
Meter_report_value(msg, pss) ==
    IF Len(msg) # 7 + pss.size THEN DecErr("UnknownZWave")
    ELSE to_meter_data(calc_value(SubSeq(msg, 8, 7 + pss.size), pss.precision),
                       msg[6], pss.scale)

\* Meter::report(msg)
Meter_report(msg) ==
    IF Len(msg) < 8 THEN DecErr("UnknownZWave")
    ELSE IF msg[4] # METER \/ msg[5] # 2 THEN DecErr("UnknownZWave")
    ELSE IF msg[6] \notin MeterType THEN DecErr("UnknownZWave")
    ELSE Meter_report_value(msg, get_precision_scale_size(msg[7]))

\* Meter::get_rate_meter_type(input): bits 4..0 are the meter type; the
\* rate (bits 6..5) is not used by the caller
get_rate_meter_type(input) ==
    IF (input % 32) \in MeterType THEN DecOk(input % 32)
    ELSE DecErr("UnknownZWave")

\* the two to_meter_data calls of report_v2, each with `?`
Meter_report_v2_tuple(pre_value, time, value, typ, scale) ==
    IF ~to_meter_data(pre_value, typ, scale).ok THEN DecErr("UnknownZWave")
    ELSE IF ~to_meter_data(value, typ, scale).ok THEN DecErr("UnknownZWave")
    ELSE DecOk(<<to_meter_data(pre_value, typ, scale).val, time,
                 to_meter_data(value, typ, scale).val>>)

\* the previous value of report_v2: 0.0 if the time is 0 or the message has
\* fewer than 10 + 2 * size bytes, else the value in msg[10 + size ..
\* 10 + 2 * size]
Meter_report_v2_pre_value(msg, pss, time) ==
    IF time = 0 \/ Len(msg) < 10 + 2 * pss.size THEN Decimal(0, 0)
    ELSE calc_value(SubSeq(msg, 11 + pss.size, 10 + 2 * pss.size),
                    pss.precision)

\* the delta time of report_v2: (msg[7 + size] << 8) | msg[8 + size]
Meter_report_v2_time(msg, pss) ==
    msg[8 + pss.size] * 256 + msg[9 + pss.size]

\* Meter::report_v2 from the length test on
Meter_report_v2_value(msg, typ, pss) ==
    IF Len(msg) < 9 + pss.size THEN DecErr("UnknownZWave")
    ELSE Meter_report_v2_tuple(
             Meter_report_v2_pre_value(msg, pss, Meter_report_v2_time(msg, pss)),
             Meter_report_v2_time(msg, pss),
             calc_value(SubSeq(msg, 8, 7 + pss.size), pss.precision),
             typ, pss.scale)

\* Meter::report_v2(msg): (previous, delta time, current)
Meter_report_v2(msg) ==
    IF Len(msg) < 8 THEN DecErr("UnknownZWave")
    ELSE IF msg[4] # METER \/ msg[5] # 2 THEN DecErr("UnknownZWave")
    ELSE IF ~get_rate_meter_type(msg[6]).ok THEN DecErr("UnknownZWave")
    ELSE Meter_report_v2_value(msg, get_rate_meter_type(msg[6]).val,
                               get_precision_scale_size(msg[7]))

\* enum PowerLevelStatus: NormalPower, minus1dBm .. minus9dBm
PowerLevelStatus == 0..9

\* a plausible slip: the level byte is not looked up in PowerLevelStatus
PowerLevel_report_any_level(msg) ==
    IF Len(msg) # 7 THEN DecErr("UnknownZWave")
    ELSE IF msg[4] # POWER_LEVEL \/ msg[5] # 3 THEN DecErr("UnknownZWave")
    ELSE DecOk(<<msg[6], msg[7]>>)

\* PowerLevel::report(msg): (level, seconds left)
PowerLevel_report(msg) ==
    IF Len(msg) # 7 THEN DecErr("UnknownZWave")
    ELSE IF msg[4] # POWER_LEVEL \/ msg[5] # 3 THEN DecErr("UnknownZWave")
    ELSE IF msg[6] \notin PowerLevelStatus THEN DecErr("UnknownZWave")
    ELSE DecOk(<<msg[6], msg[7]>>)

\* a plausible slip: the low byte is put first
transform_u16_to_array_of_u8_lsb_first(x) == <<x % 256, (x \div 256) % 256>>

\* PowerLevel::transform_u16_to_array_of_u8: [(x >> 8) & 0xff, x & 0xff]
transform_u16_to_array_of_u8(x) == <<(x \div 256) % 256, x % 256>>

\* PowerLevel::transform_array_of_u8_to_u16: (msb << 8) | lsb in u16
transform_array_of_u8_to_u16(msb, lsb) == (msb * 256 + lsb) % 65536

\* PowerLevel::test_node_set
PowerLevel_test_node_set(node_id, test_node_id, level, test_frames) ==
    Message_to_vec(node_id, POWER_LEVEL, 4,
                   <<test_node_id, level>>
                       \o transform_u16_to_array_of_u8(test_frames))

\* PowerLevel::test_node_get(node_id)
PowerLevel_test_node_get(node_id) ==
    Message_to_vec(node_id, POWER_LEVEL, 5, <<>>)

\* PowerLevel::set(node_id, level, seconds)
PowerLevel_set(node_id, level, seconds) ==
    Message_to_vec(node_id, POWER_LEVEL, 1, <<level, seconds>>)

\* PowerLevel::get(node_id)
PowerLevel_get(node_id) == Message_to_vec(node_id, POWER_LEVEL, 2, <<>>)

\* Meter::get(node_id)
Meter_get(node_id) == Message_to_vec(node_id, METER, 1, <<>>)

\* MeterData::get_scale (defs.rs), by the name of the variant
MeterData_get_scale(variant) ==
    CASE variant \in {"Electric_kWh", "Gas_meter2", "Water_meter2"} -> 0
      [] variant \in {"Electric_kVAh", "Gas_feet2", "Water_feet2"} -> 1
      [] variant \in {"Electric_W", "Water_Gallons"} -> 2
      [] variant \in {"Electric_PulseCount", "Gas_PulseCount",
                      "Water_PulseCount"} -> 3

\* Meter::get_v2(node_id, scale): the one data byte is get_scale() << 3
Meter_get_v2(node_id, variant) ==
    Message_to_vec(node_id, METER, 1,
                   <<AsU8(MeterData_get_scale(variant) * 8)>>)

\* enum PowerLevelOperationStatus: TestFailed, TestSuccess, TestInProgress
PowerLevelOperationStatus == {0, 1, 2}

\* PowerLevel::test_node_report(msg): (test node id, status, frame count)
PowerLevel_test_node_report(msg) ==
    IF Len(msg) # 9 THEN DecErr("UnknownZWave")
    ELSE IF msg[4] # POWER_LEVEL \/ msg[5] # 6 THEN DecErr("UnknownZWave")
    ELSE IF msg[7] \notin PowerLevelOperationStatus THEN DecErr("UnknownZWave")
    ELSE DecOk(<<msg[6], msg[7],
                 transform_array_of_u8_to_u16(msg[8], msg[9])>>)

-----------------------------------------------------------------------------
(* Controller::new, Controller::discover_nodes, Node::new,                  *)
(* Node::update_node_info and Node::node_info_get (basic/mod.rs), with the  *)
(* node information command of cmds/info.rs                                 *)

NO_OPERATION == 0
NODE_INFO == 1

\* enum CommandClass (defs.rs)
CommandClass ==
    {0, 1, 2, 3, 4, 5, 6, 7, 8, 9, 10, 11, 12, 13, 14, 15, 16, 17, 18, 19,
     20, 21, 22, 23, 24, 25, 26, 32, 33, 34, 35, 36, 37, 38, 39, 40, 41,
     42, 43, 44, 45, 46, 47, 48, 49, 50, 51, 52, 53, 56, 60, 61, 62, 64,
     66, 67, 68, 69, 70, 71, 74, 75, 76, 78, 79, 80, 81, 96, 98, 99, 112,
     113, 114, 115, 117, 118, 119, 122, 123, 124, 125, 128, 129, 130, 132,
     133, 134, 135, 136, 137, 138, 139, 140, 141, 142, 143, 144, 145, 146,
     147, 148, 149, 150, 151, 152, 153, 154, 155, 156, 157, 158, 239, 240}

\* Message::parse of cc/msg.rs: the length tests, the class, then data[3]
\* (0-based), which is outside a slice of three bytes: the index panics
Message_parse(data) ==
    IF Len(data) < 1 THEN DecErr("UnknownZWave")
    ELSE IF Len(data) < 3 THEN DecErr("UnknownZWave")
    ELSE IF Len(data) - 2 # data[2] THEN DecErr("UnknownZWave")
    ELSE IF data[3] \notin CommandClass THEN DecErr("UnknownZWave")
    ELSE IF Len(data) < 4 THEN DecErr("panic")
    ELSE DecOk([node_id |-> data[1], cmd_class |-> data[3], cmd |-> data[4],
                data |-> SubSeq(data, 5, Len(data))])

\* the request for the node information: class NODE_INFO, function Get (0x02)
NodeInfo_get(node_id) == Message_to_vec(node_id, NODE_INFO, 2, <<>>)

\* a plausible slip: a byte that is no enumerated command class is an error
NodeInfo_report_strict(msg) ==
    IF Len(msg) < 6 THEN DecErr("UnknownZWave")
    ELSE IF \E i \in 7..Len(msg) : msg[i] \notin CommandClass
    THEN DecErr("UnknownZWave")
    ELSE DecOk([types |-> SelectSeq(SubSeq(msg, 3, 6),
                              LAMBDA m : m # Unknown /\ m \in GenericType),
                cmds |-> SelectSeq(SubSeq(msg, 7, Len(msg)),
                              LAMBDA m : m # NO_OPERATION /\ m \in CommandClass)])

\* the types and command classes of a node information message: msg[2..6]
\* are looked up as generic types and msg[6..] as command classes; the
\* bytes 0x00 and the bytes that are no member of the enum are left out; a
\* message of fewer than 6 bytes is an error
NodeInfo_report(msg) ==
    IF Len(msg) < 6 THEN DecErr("UnknownZWave")
    ELSE DecOk([types |-> SelectSeq(SubSeq(msg, 3, 6),
                              LAMBDA m : m # Unknown /\ m \in GenericType),
                cmds |-> SelectSeq(SubSeq(msg, 7, Len(msg)),
                              LAMBDA m : m # NO_OPERATION /\ m \in CommandClass)])

\* the driver after node_info_get, its write and read calls (r is NoCall if
\* the write failed) and its Result; a panic of a call is the error "panic"
NodeInfoRan(a, w, r, ret) ==
    [message_id |-> a.message_id, messages |-> a.messages, rx |-> a.rx,
     w |-> w, r |-> r, ret |-> ret]

\* the error a call that did not return Ok leaves its caller with
CallErr(call) ==
    DecErr(IF call.ret.kind = "Panic" THEN "panic" ELSE call.ret.err)

\* node_info_get after `let msg = driver.read()?`
node_info_get_read(a, w) ==
    NodeInfoRan(a, w, a.call,
                IF a.call.ret.kind = "Ok" THEN NodeInfo_report(a.call.ret.data)
                ELSE CallErr(a.call))

\* node_info_get after `driver.write(NodeInfo::get(self.id))?`: read finds
\* the driver as write has left it
node_info_get_written(a) ==
    IF a.call.ret.kind # "Ok" THEN NodeInfoRan(a, a.call, NoCall, CallErr(a.call))
    ELSE node_info_get_read(CalledFrom(read(a.message_id, a.messages, a.rx),
                                       a.message_id, a.messages),
                            a.call)

\* Node::node_info_get
node_info_get(node_id, id, msgs, line, checks) ==
    node_info_get_written(CalledFrom(write(NodeInfo_get(node_id), id, msgs,
                                           line, checks),
                                     id, msgs))

\* struct Node: id, types, cmds
Node(id, types, cmds) == [id |-> id, types |-> types, cmds |-> cmds]

\* Node::new: the lists stay empty unless update_node_info is Ok (its
\* Result is dropped by `.is_ok()`)
Node_new(id, info) ==
    IF info.ret.ok THEN Node(id, info.ret.val.types, info.ret.val.cmds)
    ELSE Node(id, <<>>, <<>>)

\* no Controller::new has been called: at is where the construction is
\* ("none", "nodes" within the loop of discover_nodes, "done" Ok(controller),
\* "failed" Err, "panicked"), discovery the get_node_ids call, ids what it
\* returned, nodes the Vec<Node>, calls the write and read of every Node::new
NoController ==
    [at |-> "none", discovery |-> NoCall, ids |-> <<>>, nodes |-> <<>>,
     calls |-> <<>>]

\* discover_nodes after `self.driver.lock().unwrap().get_node_ids()?`
discover_nodes_ids(call) ==
    [at |-> IF call.ret.kind = "Panic" THEN "panicked"
            ELSE IF call.ret.kind = "Err" THEN "failed"
            ELSE IF call.ret.data = <<>> THEN "done" ELSE "nodes",
     discovery |-> call, ids |-> call.ret.data, nodes |-> <<>>,
     calls |-> <<>>]

\* a plausible slip: the list of nodes is not cleared
discover_nodes_keep(c) == c

\* discover_nodes, `self.nodes.borrow_mut().clear()`
discover_nodes_clear(c) == [c EXCEPT !.nodes = <<>>, !.calls = <<>>]

\* discover_nodes of a controller that has nodes already, after
\* `self.driver.lock().unwrap().get_node_ids()?`: at is where the call is,
\* "failed" when it returned the error
discover_nodes_again(c, call) ==
    [discover_nodes_clear(c)
        EXCEPT !.at = discover_nodes_ids(call).at,
               !.discovery = call,
               !.ids = call.ret.data]

\* the write and read calls of a node_info_get
InfoCalls(info) == [w |-> info.w, r |-> info.r, ret |-> info.ret]

\* one turn of the loop of discover_nodes: nodes.push(Node::new(driver, i));
\* a panic within Node::new unwinds Controller::new
discover_nodes_push(c, id, info) ==
    IF ~info.ret.ok /\ info.ret.err = "panic"
    THEN [c EXCEPT !.at = "panicked", !.calls = Append(@, InfoCalls(info))]
    ELSE [c EXCEPT !.at = IF Len(c.nodes) + 1 = Len(c.ids)
                          THEN "done" ELSE "nodes",
                   !.nodes = Append(@, Node_new(id, info)),
                   !.calls = Append(@, InfoCalls(info))]

-----------------------------------------------------------------------------
(* The driver and the dongle                                               *)

\* chunks the dongle puts on the line in one run
MaxSent == 2
\* write calls in one run (the largest id handed out)
MaxWrites == 2

\* the commands the host writes
Commands == {Basic_set(3, 255), SwitchBinary_get(3)}

\* three reads in a row time out: the line is quiet long enough to end a drain
Quiet == <<Timeout, Timeout, Timeout>>

\* the SendData Response that accepts the request: 01 04 01 13 01 E8
RespAccepted == get_command(SerialMsg_new(Response, SendData, <<1>>))
\* the SendData Response that refuses it
RespRefused == get_command(SerialMsg_new(Response, SendData, <<0>>))
\* a SendData Response with a second payload byte
RespTwoBytes == get_command(SerialMsg_new(Response, SendData, <<1, 0>>))
\* reports of node 3, as ApplicationCommandHandler Requests
ReportBasic ==
    get_command(SerialMsg_new(Request, ApplicationCommandHandler,
                              <<0, 3, 3, BASIC, 3, 255>>))
ReportSwitch ==
    get_command(SerialMsg_new(Request, ApplicationCommandHandler,
                              <<0, 3, 3, SWITCH_BINARY, 3, 255>>))
\* SendData Requests (transmit callbacks): of 3 bytes with two zeros, of 1 byte
CallbackZeros == get_command(SerialMsg_new(Request, SendData, <<1, 0, 0>>))
CallbackShort == get_command(SerialMsg_new(Request, SendData, <<1>>))
\* a Request without payload
RequestEmpty == get_command(SerialMsg_new(Request, ApplicationCommandHandler, <<>>))
\* a frame whose checksum is wrong
BadChecksum == <<SOF, 4, Request, ApplicationCommandHandler, 170, 0>>
\* a frame the end of which never arrives
Truncated == <<SOF, 4, Request>>

\* what the dongle sends in one go
Chunks ==
    {<<ACK>>, <<NAK>>, <<CAN>>,
     RespAccepted, RespRefused, RespTwoBytes, ReportBasic, ReportSwitch,
     BadChecksum}

\* the time the dongle lets pass before it sends: none, or long enough for
\* a drain to end
Gaps == {<<>>, Quiet}

\* the threads that hold a handle (a Node) on the driver
Threads == {1, 2}

\* a thread that runs no node operation
Idle ==
    [at |-> "idle", op |-> "none", node |-> 0, arg |-> <<>>, w |-> NoCall,
     r |-> NoCall, ret |-> DecErr("none"),
     info |-> [types |-> <<>>, cmds |-> <<>>]]

\* no decoder has run: fn is the function applied last, set the boolean
\* SwitchBinary::set was given (if the payload carries its value byte), res
\* the Result of the decoder
NoDecode == [fn |-> "none", set |-> DecErr("none"), res |-> DecErr("none")]

\* no thread runs an operation, no decoder has been applied
InitNodeIdle ==
    /\ mutex = 0
    /\ pc = [t \in Threads |-> Idle]
    /\ payload = <<>>
    /\ decoded = NoDecode
    /\ controller = NoController

\* SerialDriver::new: counter 0x00, no messages; the line is silent
Init ==
    /\ message_id = 0
    /\ messages = <<>>
    /\ rx = <<>>
    /\ sent = 0
    /\ overflow_checks = TRUE
    /\ last = NoCall
    /\ frame = NoMsg
    /\ wire = <<>>
    /\ flip = 0
    /\ stage = "idle"
    /\ parsed = Unset
    /\ parsedDefs = Unset
    /\ InitNodeIdle

\* the dongle lets some time pass and puts a chunk on the line
DongleSend ==
    /\ sent < MaxSent
    /\ \E gap \in Gaps, c \in Chunks : rx' = rx \o gap \o c
    /\ sent' = sent + 1
    /\ UNCHANGED <<message_id, messages, overflow_checks, last>>
    /\ UNCHANGED codecVars
    /\ UNCHANGED nodeVars

\* the driver takes the state a call leaves behind
Becomes(a) ==
    /\ message_id' = a.message_id
    /\ messages' = a.messages
    /\ rx' = a.rx
    /\ last' = [a.call EXCEPT !.pre = Pre(message_id, messages)]

\* driver.write(cmd)
Write ==
    /\ message_id < MaxWrites
    /\ \E cmd \in Commands :
          Becomes(write(cmd, message_id, messages, rx, overflow_checks))
    /\ UNCHANGED <<sent, overflow_checks>>
    /\ UNCHANGED codecVars
    /\ UNCHANGED nodeVars

\* driver.read()
Read ==
    /\ Becomes(read(message_id, messages, rx))
    /\ UNCHANGED <<sent, overflow_checks>>
    /\ UNCHANGED codecVars
    /\ UNCHANGED nodeVars

Next == DongleSend \/ Write \/ Read

Spec == Init /\ [][Next]_vars

-----------------------------------------------------------------------------
(* The message-id counter on its own                                       *)

\* the build profile is either one; the rest as after SerialDriver::new
InitIds ==
    /\ message_id = 0
    /\ messages = <<>>
    /\ rx = <<>>
    /\ sent = 0
    /\ overflow_checks \in BOOLEAN
    /\ last = NoCall
    /\ frame = NoMsg
    /\ wire = <<>>
    /\ flip = 0
    /\ stage = "idle"
    /\ parsed = Unset
    /\ parsedDefs = Unset
    /\ InitNodeIdle

\* the record of a get_next_msg_id call
IdCall(n) ==
    Call("get_next_msg_id", <<>>, IF n.panic THEN RetPanic ELSE RetId(n.id),
         <<>>, <<>>, "none", Unset, Unset, <<>>, <<>>)

\* what get_next_msg_id leaves behind
IdAfter(n) == After(n.id, messages, rx, IdCall(n))

\* self.get_next_msg_id()
NextMsgId ==
    /\ Becomes(IdAfter(get_next_msg_id(message_id, overflow_checks)))
    /\ UNCHANGED <<sent, overflow_checks>>
    /\ UNCHANGED codecVars
    /\ UNCHANGED nodeVars

NextIds == NextMsgId

SpecIds == InitIds /\ [][NextIds]_vars

-----------------------------------------------------------------------------
(* The driver asked for the nodes of the network and for their type        *)

\* chunks the dongle puts on the line in one run of the queries
MaxAnswers == 2

\* a DiscoveryNodes payload: version, capabilities, the marker byte, the
\* node mask of 29 bytes (only its first byte b3 is not zero), chip type and
\* chip version
DiscoveryPayload(marker, b3) ==
    <<5, 0, marker, b3>> \o [k \in 1..28 |-> 0] \o <<3, 1>>
DiscoveryResponse(data) ==
    get_command(SerialMsg_new(Response, DiscoveryNodes, data))
\* the nodes 1, 2, 3; the node 5; the node 8 (bit 7 of the first mask byte)
Nodes123 == DiscoveryResponse(DiscoveryPayload(NodeIdsMarker, 7))
Node5 == DiscoveryResponse(DiscoveryPayload(NodeIdsMarker, 16))
Node8 == DiscoveryResponse(DiscoveryPayload(NodeIdsMarker, 128))
\* a payload with another marker byte, and one that is a byte short
NodesNoMarker == DiscoveryResponse(DiscoveryPayload(28, 7))
NodesShort ==
    DiscoveryResponse(SubSeq(DiscoveryPayload(NodeIdsMarker, 7), 1, 33))
\* GetNodeProtocolInfo payloads: generic type BinarySwitch (0x10), a byte
\* that is no generic type (0x05), and a payload of 5 bytes
InfoResponse(data) ==
    get_command(SerialMsg_new(Response, GetNodeProtocolInfo, data))
InfoSwitch == InfoResponse(<<211, 156, 0, 4, 16, 1>>)
InfoNoType == InfoResponse(<<211, 156, 0, 4, 5, 1>>)
InfoShort == InfoResponse(<<211, 156, 0, 4, 16>>)

\* what the dongle sends in one go while the driver asks
QueryChunks ==
    {<<ACK>>, <<NAK>>, BadChecksum, Nodes123, Node5, Node8, NodesNoMarker,
     NodesShort, InfoSwitch, InfoNoType, InfoShort}

\* the node whose type is asked for
QueryNodes == {3}

\* the dongle lets some time pass and puts a chunk on the line
DongleAnswer ==
    /\ sent < MaxAnswers
    /\ \E gap \in Gaps, c \in QueryChunks : rx' = rx \o gap \o c
    /\ sent' = sent + 1
    /\ UNCHANGED <<message_id, messages, overflow_checks, last>>
    /\ UNCHANGED codecVars
    /\ UNCHANGED nodeVars

\* driver.get_node_ids()
GetNodeIds ==
    /\ Becomes(get_node_ids(message_id, messages, rx))
    /\ UNCHANGED <<sent, overflow_checks>>
    /\ UNCHANGED codecVars
    /\ UNCHANGED nodeVars

\* driver.get_node_generic_class(node_id)
GetNodeGenericClass ==
    /\ \E node_id \in QueryNodes :
          Becomes(get_node_generic_class(node_id, message_id, messages, rx))
    /\ UNCHANGED <<sent, overflow_checks>>
    /\ UNCHANGED codecVars
    /\ UNCHANGED nodeVars

NextQuery == DongleAnswer \/ GetNodeIds \/ GetNodeGenericClass

SpecQuery == Init /\ [][NextQuery]_vars

-----------------------------------------------------------------------------
(* The driver while the dongle sends SendData Requests (the callbacks that  *)
(* tell how a transmission went)                                           *)

\* chunks the dongle puts on the line in one run with callbacks
MaxCallbacks == 2

\* SendData Requests without payload and with a payload of 2 bytes
CallbackEmpty == get_command(SerialMsg_new(Request, SendData, <<>>))
CallbackTwo == get_command(SerialMsg_new(Request, SendData, <<1, 0>>))

\* what the dongle sends in one go
CallbackChunks ==
    {<<ACK>>, CallbackEmpty, CallbackShort, CallbackTwo, CallbackZeros}

\* the dongle lets some time pass and puts a chunk on the line
DongleCallback ==
    /\ sent < MaxCallbacks
    /\ \E gap \in Gaps, c \in CallbackChunks : rx' = rx \o gap \o c
    /\ sent' = sent + 1
    /\ UNCHANGED <<message_id, messages, overflow_checks, last>>
    /\ UNCHANGED codecVars
    /\ UNCHANGED nodeVars

NextCallback ==
    DongleCallback \/ Write \/ Read \/ GetNodeIds \/ GetNodeGenericClass

SpecCallback == Init /\ [][NextCallback]_vars

-----------------------------------------------------------------------------
(* Nodes: the operations of impl Node (basic/mod.rs), run by threads that   *)
(* share the driver behind its mutex                                       *)

\* chunks the dongle puts on the line in one run of the node operations
MaxReplies == 2
\* operations started in one run (the largest id handed out)
MaxGets == 2

\* the operations of impl Node that only write, and return what write returns
NodeSetOps ==
    {"basic_set", "switch_binary_set", "powerlevel_set",
     "powerlevel_test_node_set"}

\* the operations of impl Node that write and then read
NodeGetOps ==
    {"basic_get", "switch_binary_get", "powerlevel_get",
     "powerlevel_test_node_get", "meter_get", "meter_get_v2",
     "node_info_get", "update_node_info"}

\* the operations of a node, and the node they are sent to
NodeOps == NodeSetOps \cup NodeGetOps
Nodes == {3}

\* the arguments the threads call an operation with: a value, a boolean
\* (1 is true), a level and seconds, a test node with level and frame
\* count, a meter type
NodeArgs(op) ==
    CASE op = "basic_set" -> {<<255>>}
      [] op = "switch_binary_set" -> {<<1>>}
      [] op = "powerlevel_set" -> {<<1, 5>>}
      [] op = "powerlevel_test_node_set" -> {<<4, 1, 10>>}
      [] op = "meter_get_v2" -> {<<"Electric_W">>}
      [] OTHER -> {<<>>}

\* the command an operation writes
NodeRequest(op, node, arg) ==
    CASE op = "basic_set" -> Basic_set(node, arg[1])
      [] op = "basic_get" -> Basic_get(node)
      [] op = "switch_binary_set" -> SwitchBinary_set(node, arg[1] = 1)
      [] op = "switch_binary_get" -> SwitchBinary_get(node)
      [] op = "powerlevel_set" -> PowerLevel_set(node, arg[1], arg[2])
      [] op = "powerlevel_get" -> PowerLevel_get(node)
      [] op = "powerlevel_test_node_set" ->
             PowerLevel_test_node_set(node, arg[1], arg[2], arg[3])
      [] op = "powerlevel_test_node_get" -> PowerLevel_test_node_get(node)
      [] op = "meter_get" -> Meter_get(node)
      [] op = "meter_get_v2" -> Meter_get_v2(node, arg[1])
      [] op \in {"node_info_get", "update_node_info"} -> NodeInfo_get(node)

\* the decoder a Get operation hands the payload of read to
NodeReport(op, data) ==
    CASE op = "basic_get" -> Basic_report(data)
      [] op = "switch_binary_get" -> SwitchBinary_report(data)
      [] op = "powerlevel_get" -> PowerLevel_report(data)
      [] op = "powerlevel_test_node_get" -> PowerLevel_test_node_report(data)
      [] op = "meter_get" -> Meter_report(data)
      [] op = "meter_get_v2" -> Meter_report_v2(data)
      [] op \in {"node_info_get", "update_node_info"} -> NodeInfo_report(data)

\* what a Get operation returns for the Result of its decoder:
\* update_node_info returns Ok(()) where node_info_get is Ok
NodeResult(op, res) ==
    IF op = "update_node_info" /\ res.ok THEN DecOk(<<>>) ELSE res

\* the fields types and cmds of the Node after the operation:
\* update_node_info sets them from what node_info_get returned
NodeFields(op, res, fields) ==
    IF op = "update_node_info" /\ res.ok
    THEN [types |-> res.val.types, cmds |-> res.val.cmds]
    ELSE fields

\* whether the operation keeps the MutexGuard in a local (`let mut driver =
\* self.driver.lock().unwrap()`) from its write to its read;
\* powerlevel_test_node_get locks in the statement of its write and again in
\* the statement of its read, and each guard is dropped with its statement
HoldsGuard(op) == op # "powerlevel_test_node_get"

\* the dongle's answer to a request it takes: ACK, then the Response
Accept == <<ACK>> \o RespAccepted
\* reports as ApplicationCommandHandler Requests: of node 3 (power level
\* test of node 4 with 10 frames) and of node 4
ReportTestNode ==
    get_command(SerialMsg_new(Request, ApplicationCommandHandler,
                              <<0, 3, 6, POWER_LEVEL, 6, 4, 1, 0, 10>>))
ReportSwitchOther ==
    get_command(SerialMsg_new(Request, ApplicationCommandHandler,
                              <<0, 4, 3, SWITCH_BINARY, 3, 0>>))

\* reports of node 3: the power level minus1dBm for 5 more seconds, and an
\* electric meter at 12.3 W (precision 1, scale 2, size 2), of version 2
\* with a delta time of 0 and of version 1
ReportPowerLevel ==
    get_command(SerialMsg_new(Request, ApplicationCommandHandler,
                              <<0, 3, 4, POWER_LEVEL, 3, 1, 5>>))
ReportMeter ==
    get_command(SerialMsg_new(Request, ApplicationCommandHandler,
                              <<0, 3, 8, METER, 2, Electric, 50, 0, 123, 0, 0>>))
ReportMeterV1 ==
    get_command(SerialMsg_new(Request, ApplicationCommandHandler,
                              <<0, 3, 6, METER, 2, Electric, 50, 0, 123>>))

\* what the dongle sends in one go while node operations run
NodeChunks ==
    {Accept, ReportBasic, ReportSwitch, ReportSwitchOther, ReportTestNode,
     ReportPowerLevel, ReportMeter, ReportMeterV1, CallbackShort}

\* the state of a std::sync::Mutex whose guard was dropped while its thread
\* panicked: every later lock() returns Err, and `.unwrap()` panics on it
Poisoned == -1

\* the controller of node 3, whose node information never came
ControllerOfNode3 ==
    [at |-> "done", discovery |-> NoCall, ids |-> <<3>>,
     nodes |-> <<Node(3, <<>>, <<>>)>>,
     calls |-> <<[w |-> NoCall, r |-> NoCall, ret |-> DecErr("Io(Other)")]>>]

\* Controller::new has made the nodes: Node::new has written one NodeInfo
\* request per node, which took one message id each; the line is silent
InitNode ==
    /\ message_id = Cardinality(Nodes)
    /\ messages = <<>>
    /\ rx = <<>>
    /\ sent = 0
    /\ overflow_checks = TRUE
    /\ last = NoCall
    /\ frame = NoMsg
    /\ wire = <<>>
    /\ flip = 0
    /\ stage = "idle"
    /\ parsed = Unset
    /\ parsedDefs = Unset
    /\ mutex = 0
    /\ pc = [t \in Threads |-> Idle]
    /\ payload = <<>>
    /\ decoded = NoDecode
    /\ controller = ControllerOfNode3

\* the dongle lets some time pass and puts a chunk on the line
DongleReply ==
    /\ sent < MaxReplies
    /\ \E gap \in Gaps, c \in NodeChunks : rx' = rx \o gap \o c
    /\ sent' = sent + 1
    /\ UNCHANGED <<message_id, messages, overflow_checks, last>>
    /\ UNCHANGED <<mutex, pc, payload, decoded, controller>>
    /\ UNCHANGED codecVars

\* thread t at a point of an operation: arg are the arguments of the call,
\* w and r its write and read, ret its Result, info the fields types and
\* cmds of the thread's Node
NodeAt(t, at, op, node, arg, w, r, ret, info) ==
    [pc EXCEPT ![t] = [at |-> at, op |-> op, node |-> node, arg |-> arg,
                       w |-> w, r |-> r, ret |-> ret, info |-> info]]

\* `self.driver.lock().unwrap()` on a poisoned mutex: the thread panics
\* before it reaches the driver; w is the write it has made before
NodeLockFails(t, op, node, arg, w) ==
    /\ mutex = Poisoned
    /\ pc' = NodeAt(t, "panicked", op, node, arg, w, NoCall, DecErr("panic"),
                    pc[t].info)
    /\ UNCHANGED <<message_id, messages, rx, last, mutex>>

\* the thread after the statement of the write: if write failed the error
\* is returned and every guard is dropped; if it panicked the thread unwinds
\* and the guard, dropped while panicking, poisons the mutex; a Set
\* operation returns the message id write returned; else the guard stays
\* with the thread only if the operation keeps it in a local
NodeWritten(t, op, node, arg, call) ==
    /\ last' = call
    /\ IF call.ret.kind = "Panic"
       THEN /\ pc' = NodeAt(t, "panicked", op, node, arg, call, NoCall,
                            CallErr(call), pc[t].info)
            /\ mutex' = Poisoned
       ELSE IF call.ret.kind = "Err"
       THEN /\ pc' = NodeAt(t, "done", op, node, arg, call, NoCall,
                            DecErr(call.ret.err), pc[t].info)
            /\ mutex' = 0
       ELSE IF op \in NodeSetOps
       THEN /\ pc' = NodeAt(t, "done", op, node, arg, call, NoCall,
                            DecOk(call.ret.id), pc[t].info)
            /\ mutex' = 0
       ELSE /\ pc' = NodeAt(t, "written", op, node, arg, call, NoCall,
                            DecErr("none"), pc[t].info)
            /\ mutex' = IF HoldsGuard(op) THEN t ELSE 0

\* the driver and the thread after driver.write(...) of an operation
NodeWrite(t, op, node, arg, a) ==
    /\ message_id' = a.message_id
    /\ messages' = a.messages
    /\ rx' = a.rx
    /\ NodeWritten(t, op, node, arg,
                   [a.call EXCEPT !.pre = Pre(message_id, messages)])

\* thread t starts an operation: it locks the mutex (which must be free)
\* and writes the request, or panics at the lock of a poisoned mutex
NodeBegin(t) ==
    /\ pc[t].at \in {"idle", "done"}
    /\ \/ /\ mutex = 0
          /\ message_id < Cardinality(Nodes) + MaxGets
          /\ \E op \in NodeOps, node \in Nodes : \E arg \in NodeArgs(op) :
                NodeWrite(t, op, node, arg,
                          write(NodeRequest(op, node, arg), message_id,
                                messages, rx, overflow_checks))
       \/ \E op \in NodeOps, node \in Nodes : \E arg \in NodeArgs(op) :
             NodeLockFails(t, op, node, arg, NoCall)
    /\ UNCHANGED <<sent, overflow_checks, payload, decoded, controller>>
    /\ UNCHANGED codecVars

\* the thread after the statement of the read: the payload goes to the
\* decoder of the operation, an error of read is returned as it is; a panic
\* of read unwinds the thread and poisons the mutex
NodeDone(t, call) ==
    /\ last' = call
    /\ pc' = NodeAt(t, IF call.ret.kind = "Panic" THEN "panicked" ELSE "done",
                    pc[t].op, pc[t].node, pc[t].arg, pc[t].w, call,
                    IF call.ret.kind = "Ok"
                    THEN NodeResult(pc[t].op,
                                    NodeReport(pc[t].op, call.ret.data))
                    ELSE CallErr(call),
                    IF call.ret.kind = "Ok"
                    THEN NodeFields(pc[t].op,
                                    NodeReport(pc[t].op, call.ret.data),
                                    pc[t].info)
                    ELSE pc[t].info)
    /\ mutex' = IF call.ret.kind = "Panic" THEN Poisoned ELSE 0

\* the driver and the thread after driver.read() of a Get operation
NodeRead(t, a) ==
    /\ message_id' = a.message_id
    /\ messages' = a.messages
    /\ rx' = a.rx
    /\ NodeDone(t, [a.call EXCEPT !.pre = Pre(message_id, messages)])

\* thread t ends its Get operation: it reads under the guard it holds, or
\* under a new one if it holds none (the mutex must then be free), or
\* panics at the lock of a poisoned mutex
NodeEnd(t) ==
    /\ pc[t].at = "written"
    /\ \/ /\ \/ mutex = t
             \/ ~HoldsGuard(pc[t].op) /\ mutex = 0
          /\ NodeRead(t, read(message_id, messages, rx))
       \/ /\ ~HoldsGuard(pc[t].op)
          /\ NodeLockFails(t, pc[t].op, pc[t].node, pc[t].arg, pc[t].w)
    /\ UNCHANGED <<sent, overflow_checks, payload, decoded, controller>>
    /\ UNCHANGED codecVars

NextNode ==
    \/ DongleReply
    \/ \E t \in Threads : NodeBegin(t)
    \/ \E t \in Threads : NodeEnd(t)

SpecNode == InitNode /\ [][NextNode]_vars

-----------------------------------------------------------------------------
(* Controller::new while the dongle answers                                 *)

\* chunks the dongle puts on the line in one run of Controller::new
MaxBootSent == 3

ApplicationUpdate == 73

\* the answer to the discovery request: ACK and the list of the nodes 2, 3
AckNodes23 ==
    <<ACK>> \o DiscoveryResponse(DiscoveryPayload(NodeIdsMarker, 6))
\* the node information of a binary switch (types 4, 16, 1; classes 0x25,
\* 0x20 and a byte that is no command class), and one that is too short
InfoOfSwitch ==
    get_command(SerialMsg_new(Request, ApplicationUpdate,
                              <<132, 2, 5, 4, 16, 1, 37, 32, 200>>))
InfoTooShort ==
    get_command(SerialMsg_new(Request, ApplicationUpdate, <<132, 2, 2, 4, 16>>))

\* what the dongle sends in one go while the controller is made
BootChunks ==
    {AckNodes23, <<ACK>> \o NodesNoMarker,
     Accept \o InfoOfSwitch, Accept, Accept \o InfoTooShort, CallbackShort}

\* the dongle lets some time pass and puts a chunk on the line
DongleBoot ==
    /\ sent < MaxBootSent
    /\ \E gap \in Gaps, c \in BootChunks : rx' = rx \o gap \o c
    /\ sent' = sent + 1
    /\ UNCHANGED <<message_id, messages, overflow_checks, last>>
    /\ UNCHANGED codecVars
    /\ UNCHANGED nodeVars

\* Controller::new up to the loop of discover_nodes; a panic under the guard
\* of the driver poisons the mutex
ControllerNew ==
    /\ controller.at = "none"
    /\ Becomes(get_node_ids(message_id, messages, rx))
    /\ controller' =
          discover_nodes_ids(CalledFrom(get_node_ids(message_id, messages, rx),
                                        message_id, messages).call)
    /\ mutex' = IF controller'.at = "panicked" THEN Poisoned ELSE mutex
    /\ UNCHANGED <<sent, overflow_checks, pc, payload, decoded>>
    /\ UNCHANGED codecVars

\* the driver and the controller after the Node::new of one turn of the loop
NodeNewRan(id, info) ==
    /\ message_id' = info.message_id
    /\ messages' = info.messages
    /\ rx' = info.rx
    /\ last' = IF info.r = NoCall THEN info.w ELSE info.r
    /\ controller' = discover_nodes_push(controller, id, info)

\* one turn of the loop of discover_nodes
NodeNew ==
    /\ controller.at = "nodes"
    /\ NodeNewRan(controller.ids[Len(controller.nodes) + 1],
                  node_info_get(controller.ids[Len(controller.nodes) + 1],
                                message_id, messages, rx, overflow_checks))
    /\ mutex' = IF controller'.at = "panicked" THEN Poisoned ELSE mutex
    /\ UNCHANGED <<sent, overflow_checks, pc, payload, decoded>>
    /\ UNCHANGED codecVars

NextController == DongleBoot \/ ControllerNew \/ NodeNew

SpecController == Init /\ [][NextController]_vars

\* chunks the dongle puts on the line while the nodes are discovered again
MaxAgainSent == 2

\* what the dongle sends in one go then
AgainChunks ==
    {AckNodes23, <<ACK>> \o NodesNoMarker, Accept \o InfoOfSwitch, Accept}

\* the dongle lets some time pass and puts a chunk on the line
DongleAgain ==
    /\ sent < MaxAgainSent
    /\ \E gap \in Gaps, c \in AgainChunks : rx' = rx \o gap \o c
    /\ sent' = sent + 1
    /\ UNCHANGED <<message_id, messages, overflow_checks, last>>
    /\ UNCHANGED codecVars
    /\ UNCHANGED nodeVars

\* controller.discover_nodes() of a controller that was made with node 3,
\* up to the loop; it may be called again when the call before has returned
DiscoverNodes ==
    /\ controller.at \in {"done", "failed"}
    /\ Becomes(get_node_ids(message_id, messages, rx))
    /\ controller' =
          discover_nodes_again(controller,
                               CalledFrom(get_node_ids(message_id, messages,
                                                       rx),
                                          message_id, messages).call)
    /\ mutex' = IF controller'.at = "panicked" THEN Poisoned ELSE mutex
    /\ UNCHANGED <<sent, overflow_checks, pc, payload, decoded>>
    /\ UNCHANGED codecVars

NextDiscover == DongleAgain \/ DiscoverNodes \/ NodeNew

SpecDiscover == InitNode /\ [][NextDiscover]_vars

-----------------------------------------------------------------------------
(* Report decoders applied to payloads: Basic::report, SwitchBinary::report *)
(* and Meter::report on the payloads a read can hand out, and               *)
(* SwitchBinary::report on a report that carries the value byte of          *)
(* SwitchBinary::set                                                        *)

\* largest precision (bits 7..5 of the byte after the meter type) decoded
MaxPrecision == 2

\* value bytes of the payloads decoded
ValueBytes == {0, 1, 99, 123, 254, 255}

\* payloads of the shape of a Basic or a Binary Switch report, with right
\* and wrong class and command, one byte short and one byte long
ReportPayloads ==
    {<<0, 3, 3, c, k, v>> \o x :
        c \in {BASIC, SWITCH_BINARY, METER}, k \in {1, 2, 3}, v \in ValueBytes,
        x \in {<<>>, <<0>>}}
    \cup {<<0, 3, 2, c, 3>> : c \in {BASIC, SWITCH_BINARY}}

\* the byte that holds precision, scale and size
PssByte(precision, scale, size) == precision * 32 + scale * 8 + size

\* the value bytes of the meter payloads: none to five
MeterValues ==
    {<<>>, <<123>>, <<200>>, <<0, 123>>, <<255, 133>>, <<1, 2, 3>>,
     <<0, 0, 1, 0>>, <<255, 255, 255, 255>>, <<1, 2, 3, 4, 5>>}

\* a payload of the shape of a Meter report
MeterPayload(class, cmd, typ, p, s, n, v) ==
    <<0, 3, 4 + Len(v), class, cmd, typ, PssByte(p, s, n)>> \o v

\* payloads of the shape of a Meter report: every meter type byte 0..4 with
\* every scale; every precision with sizes 0..5 that fit the value bytes or
\* not; a wrong class, a wrong command
MeterPayloads ==
    {MeterPayload(METER, 2, typ, 1, s, Len(v), v) :
        typ \in 0..4, s \in 0..3, v \in {<<123>>, <<0, 123>>}}
    \cup {MeterPayload(METER, 2, Electric, p, 0, n, v) :
        p \in 0..MaxPrecision, n \in 0..5, v \in MeterValues}
    \cup {MeterPayload(BASIC, 2, Electric, 1, 0, 2, <<0, 123>>),
          MeterPayload(METER, 1, Electric, 1, 0, 2, <<0, 123>>),
          MeterPayload(METER, 3, Electric, 1, 0, 2, <<0, 123>>)}

\* a payload of the shape of a Meter report of version 2: the value, the
\* delta time and what follows it
MeterV2Payload(typ, s, v, time, tail) ==
    <<0, 3, 4 + Len(v) + Len(time) + Len(tail), METER, 2, typ,
      PssByte(1, s, Len(v))>> \o v \o time \o tail

\* payloads of the shape of a Meter report of version 2: meter type bytes
\* with and without rate bits, delta times zero and not, and after the
\* delta time nothing, a previous value, a shorter and a longer tail; the
\* pair (Gas, 2); messages that end within the delta time
MeterV2Payloads ==
    {MeterV2Payload(typ, 0, v, time, tail) :
        typ \in {0, Electric, 32 + Electric}, v \in {<<123>>, <<0, 123>>},
        time \in {<<0, 0>>, <<0, 5>>, <<1, 0>>},
        tail \in {<<>>, <<100>>, <<0, 100>>, <<7, 0, 100>>, <<0, 100, 7>>}}
    \cup {MeterV2Payload(Gas, 2, <<123>>, <<0, 5>>, <<100>>),
          MeterV2Payload(Electric, 0, <<0, 123>>, <<5>>, <<>>),
          MeterV2Payload(Electric, 0, <<0, 0, 0, 123>>, <<0, 5>>, <<>>)}

\* payloads of the shape of a Powerlevel report and of a Powerlevel test
\* node report, with right and wrong lengths, commands, levels and states
PowerLevelPayloads ==
    {<<0, 3, 4, POWER_LEVEL, 3, level, t>> :
        level \in {0, 9, 10, 255}, t \in {0, 60}}
    \cup {<<0, 3, 6, POWER_LEVEL, 6, 4, st, hi, 10>> :
        st \in 0..3, hi \in {0, 1, 255}}
    \cup {<<0, 3, 3, POWER_LEVEL, 3, 0>>, <<0, 3, 5, POWER_LEVEL, 3, 0, 0, 0>>,
          <<0, 3, 4, POWER_LEVEL, 6, 0, 0>>, <<0, 3, 4, BASIC, 3, 0, 0>>,
          <<0, 3, 5, POWER_LEVEL, 6, 4, 1, 0>>,
          <<0, 3, 7, POWER_LEVEL, 6, 4, 1, 0, 10, 0>>,
          <<0, 3, 6, POWER_LEVEL, 3, 4, 1, 0, 10>>,
          <<0, 3, 6, METER, 6, 4, 1, 0, 10>>}

DecodePayloads ==
    ReportPayloads \cup MeterPayloads \cup MeterV2Payloads
        \cup PowerLevelPayloads \cup {<<>>, <<0, 3, 1>>}

\* read has handed out a payload
ReceivePayload ==
    /\ \E p \in DecodePayloads : payload' = p
    /\ decoded' = NoDecode
    /\ UNCHANGED <<mutex, pc, controller>>
    /\ UNCHANGED driverVars
    /\ UNCHANGED codecVars

\* the value byte of a command made by SwitchBinary::set: its last byte
ValueByteOf(cmd) == cmd[Len(cmd)]

\* SwitchBinary::set(node, b) is made and the node reports the value byte
\* it was set to
SetAndReport ==
    /\ \E node \in Nodes, b \in BOOLEAN :
          /\ payload' = <<0, node, 3, SWITCH_BINARY, 3,
                          ValueByteOf(SwitchBinary_set(node, b))>>
          /\ decoded' = [fn |-> "SwitchBinary::set", set |-> DecOk(b),
                         res |-> DecErr("none")]
    /\ UNCHANGED <<mutex, pc, controller>>
    /\ UNCHANGED driverVars
    /\ UNCHANGED codecVars

\* a decoder is applied to the payload
Decode(fn, res) ==
    /\ payload # <<>> \/ decoded.fn # fn
    /\ decoded' = [decoded EXCEPT !.fn = fn, !.res = res]
    /\ UNCHANGED <<mutex, pc, payload, controller>>
    /\ UNCHANGED driverVars
    /\ UNCHANGED codecVars

BasicReport == Decode("Basic::report", Basic_report(payload))

SwitchBinaryReport == Decode("SwitchBinary::report", SwitchBinary_report(payload))

MeterReport == Decode("Meter::report", Meter_report(payload))

MeterReportV2 == Decode("Meter::report_v2", Meter_report_v2(payload))

PowerLevelReport == Decode("PowerLevel::report", PowerLevel_report(payload))

PowerLevelTestNodeReport ==
    Decode("PowerLevel::test_node_report", PowerLevel_test_node_report(payload))

NextDecode ==
    ReceivePayload \/ SetAndReport \/ BasicReport \/ SwitchBinaryReport
        \/ MeterReport \/ MeterReportV2 \/ PowerLevelReport
        \/ PowerLevelTestNodeReport

SpecDecode == Init /\ [][NextDecode]_vars

\* the frame counts of a power-level test: every u16
FrameCounts == 0..65535

\* PowerLevel::test_node_set(3, 2, level 1, x) is made and the node reports
\* the two frame-count bytes of the command as the count of its test
TestNodeSetAndReport ==
    /\ decoded.fn = "none"
    /\ \E x \in FrameCounts :
          /\ payload' = <<0, 3, 6, POWER_LEVEL, 6, 2, 1>>
                            \o SubSeq(PowerLevel_test_node_set(3, 2, 1, x), 7, 8)
          /\ decoded' = [fn |-> "PowerLevel::test_node_set", set |-> DecOk(x),
                         res |-> DecErr("none")]
    /\ UNCHANGED <<mutex, pc, controller>>
    /\ UNCHANGED driverVars
    /\ UNCHANGED codecVars

NextTestFrames == TestNodeSetAndReport \/ PowerLevelTestNodeReport

SpecTestFrames == Init /\ [][NextTestFrames]_vars

\* byte sequences handed to Message::parse: 0 to 6 bytes, the length byte
\* right and wrong, the class byte an enumerated class or not
MessageInputs ==
    {SubSeq(<<3, l, c, k, 255, 7>>, 1, n) :
        l \in 0..5, c \in {0, 32, 37, 200}, k \in {1, 3}, n \in 0..6}

\* a byte sequence is handed over to be parsed as a command message
ReceiveCommand ==
    /\ \E p \in MessageInputs : payload' = p
    /\ decoded' = NoDecode
    /\ UNCHANGED <<mutex, pc, controller>>
    /\ UNCHANGED driverVars
    /\ UNCHANGED codecVars

MessageParse == Decode("Message::parse", Message_parse(payload))

NextMessage == ReceiveCommand \/ MessageParse

SpecMessage == Init /\ [][NextMessage]_vars

\* the four type bytes of the node information payloads: enumerated types,
\* Unknown (0x00) and bytes that are no generic type (5, 200)
InfoTypeBytes ==
    {<<a, b, c, d>> : a \in {0, 16}, b \in {1, 200}, c \in {5, 16},
                      d \in {0, 255}}

\* the class bytes of the node information payloads: enumerated classes,
\* NO_OPERATION (0x00) and bytes that are no command class (27, 200, 250)
InfoClassBytes ==
    {<<>>, <<37>>, <<0>>, <<200>>, <<37, 32, 200>>, <<0, 37, 0, 250, 32>>,
     <<32, 37, 32>>, <<27, 250, 200>>}

\* node information payloads, whole and cut off after 0 to 5 bytes
NodeInfoPayloads ==
    {<<132, 2>> \o t \o c : t \in InfoTypeBytes, c \in InfoClassBytes}
    \cup {SubSeq(<<132, 2, 16, 1, 5, 255>>, 1, n) : n \in 0..5}

\* a node information payload arrives
ReceiveInfo ==
    /\ \E p \in NodeInfoPayloads : payload' = p
    /\ decoded' = NoDecode
    /\ UNCHANGED <<mutex, pc, controller>>
    /\ UNCHANGED driverVars
    /\ UNCHANGED codecVars

NodeInfoReport == Decode("NodeInfo::report", NodeInfo_report(payload))

NextInfo == ReceiveInfo \/ NodeInfoReport

SpecInfo == Init /\ [][NextInfo]_vars

-----------------------------------------------------------------------------
(* Frame codec harness: the inputs the codec is applied to                 *)

\* longest payload of an encoded frame
MaxPayloadLen == 250
\* longest payload of a frame whose bytes are replaced one at a time
MaxFlipPayload == 2
\* payload length of the over-long raw input (the slice is 5 bytes longer)
LongRawPayload == 256

\* n bytes seed+7, seed+14, ... (mod 256)
Pattern(n, seed) == [i \in 1..n |-> (seed + 7 * i) % 256]

WithChecksum(buf) == Append(buf, checksum(buf))

SampleFuncs == {FnNone, DiscoveryNodes, SendData, 208}

SamplePayloads ==
    {<<>>, <<1>>, <<255, 0>>, <<3, 3, 32, 1, 255, 4, 1>>,
     Pattern(MaxPayloadLen, 17)}

CodecFrames ==
       {SerialMsg_new(t, f, <<>>) : t \in SerialMsgType, f \in SerialMsgFunction}
  \cup {SerialMsg_new(t, f, p) :
            t \in SerialMsgType, f \in SampleFuncs, p \in SamplePayloads}
  \cup {new_header(h) : h \in {ACK, NAK, CAN}}

\* the frames whose bytes are replaced one at a time
IsFlipFrame(m) ==
    /\ m.header = SOF
    /\ m.func \in SampleFuncs
    /\ Len(m.data) <= MaxFlipPayload

RawInputs ==
       {<<>>, <<255>>, <<0>>, <<1>>, <<6>>, <<21>>, <<24>>, <<6, 1, 2>>,
        <<1, 2, 0, 253>>,
        <<1, 7, 0, 19, 2, 3, 32, 1, 0, 196>>,
        <<1, 8, 0, 19, 2, 3, 32, 1, 0, 197>>,
        <<1, 3, 0, 19, 239>>,
        <<1, 4, 1, 19, 1, 232>>,
        <<1, 8, 0, 19, 2, 3, 32, 1, 0, 196>>}
  \cup {WithChecksum(<<1, 3, t, f>>) : t \in {0, 1, 2, 255}, f \in Byte}
  \cup {WithChecksum(<<1, AsU8(LongRawPayload + 3), 0, SendData>>
                     \o Pattern(LongRawPayload, 5))}

InitDriverIdle ==
    /\ message_id = 0
    /\ messages = <<>>
    /\ rx = <<>>
    /\ sent = 0
    /\ overflow_checks = FALSE
    /\ last = NoCall

InitCodec ==
    /\ \/ stage = "init" /\ frame \in CodecFrames /\ wire = <<>>
       \/ stage = "raw"  /\ frame = NoMsg         /\ wire \in RawInputs
    /\ flip = 0
    /\ parsed = Unset
    /\ parsedDefs = Unset
    /\ InitDriverIdle
    /\ InitNodeIdle

\* m.get_command()
Encode ==
    /\ stage = "init"
    /\ wire' = get_command(frame)
    /\ stage' = "encoded"
    /\ UNCHANGED <<frame, flip, parsed, parsedDefs>>
    /\ UNCHANGED driverVars
    /\ UNCHANGED nodeVars

\* one byte of an encoded SOF frame is replaced by a different value
Flip ==
    /\ stage = "encoded"
    /\ IsFlipFrame(frame)
    /\ \E pos \in 1..Len(wire), v \in Byte :
          /\ v # wire[pos]
          /\ wire' = [wire EXCEPT ![pos] = v]
          /\ flip' = pos
    /\ stage' = "flipped"
    /\ UNCHANGED <<frame, parsed, parsedDefs>>
    /\ UNCHANGED driverVars
    /\ UNCHANGED nodeVars

\* SerialMsg::parse(wire) and SerialMessage::parse(wire)
Parse ==
    /\ stage \in {"encoded", "flipped", "raw"}
    /\ parsed' = parse(wire)
    /\ parsedDefs' = SerialMessage_parse(wire)
    /\ stage' = "parsed"
    /\ UNCHANGED <<frame, wire, flip>>
    /\ UNCHANGED driverVars
    /\ UNCHANGED nodeVars

NextCodec ==
    \/ Encode
    \/ Flip
    \/ Parse

SpecCodec == InitCodec /\ [][NextCodec]_vars

\* where the parsed slice came from
FromEncode == stage = "parsed" /\ frame # NoMsg /\ flip = 0
FromFlip   == stage = "parsed" /\ flip > 0
FromRaw    == stage = "parsed" /\ frame = NoMsg

-----------------------------------------------------------------------------
(* The reading functions of the driver applied to what the port delivers:   *)
(* read_single_msg, read_single_msg_rty and read_all_msg                    *)

\* runs of events the dongle puts on the line in one run
MaxPortSent == 2
\* largest number of tries handed to read_single_msg_rty
MaxTries == 3

\* the tries handed to read_single_msg_rty
Tries == (-1)..MaxTries

\* a frame whose length byte is 255: 252 payload bytes
LongFrame ==
    get_command(SerialMsg_new(Request, ApplicationCommandHandler,
                              Pattern(252, 17)))

\* what the line delivers in one run: header-only frames, a byte that is no
\* header, three timeouts, a frame that parses, frames that do not (wrong
\* checksum, length byte 0), the longest frame, a Request without payload,
\* a transmit callback with zeros
PortItems ==
    {<<ACK>>, <<NAK>>, <<CAN>>, <<255>>, Quiet, RespAccepted, BadChecksum,
     <<SOF, 0>>, LongFrame, RequestEmpty, CallbackZeros}

\* the dongle puts a run of events on the line
PortPut ==
    /\ sent < MaxPortSent
    /\ \E c \in PortItems : rx' = rx \o c
    /\ sent' = sent + 1
    /\ UNCHANGED <<message_id, messages, overflow_checks, last>>
    /\ UNCHANGED codecVars
    /\ UNCHANGED nodeVars

\* the Result of a reading function as the ret of a call
RetOfRead(res) == IF res.ok THEN RetData(<<>>) ELSE RetErr(res.err)

\* the port and the record after a reading function: wire is what the call
\* took from the line, pre.line what was on the line when it was called,
\* arg the tries, first the Result, tx what the call wrote to the port
PortRan(op, tries, r) ==
    /\ rx' = r.rest
    /\ wire' = SubSeq(rx, 1, Len(rx) - Len(r.rest))
    /\ last' = [Call(op, tries, RetOfRead(r.res), r.wr, <<>>, "none", r.res,
                     Unset, Frames(r.res), <<>>)
                   EXCEPT !.pre = [id |-> message_id, msgs |-> messages,
                                   line |-> rx]]

\* self.read_single_msg()
ReadSingleMsg ==
    /\ PortRan("read_single_msg", <<>>, read_single_msg(rx))
    /\ UNCHANGED <<message_id, messages, sent, overflow_checks>>
    /\ UNCHANGED <<frame, flip, stage, parsed, parsedDefs>>
    /\ UNCHANGED nodeVars

\* self.read_single_msg_rty(&tries)
ReadSingleMsgRty ==
    /\ \E tries \in Tries :
          PortRan("read_single_msg_rty", <<tries>>,
                  read_single_msg_rty(rx, tries))
    /\ UNCHANGED <<message_id, messages, sent, overflow_checks>>
    /\ UNCHANGED <<frame, flip, stage, parsed, parsedDefs>>
    /\ UNCHANGED nodeVars

\* the ret of a read_all_msg
RetOfDrain(d) ==
    IF d.status = "ok" THEN RetData(<<>>)
    ELSE IF d.status = "err" THEN RetErr(d.err)
    ELSE RetPanic

\* the driver and the record after read_all_msg
Drain(d) ==
    /\ rx' = d.rest
    /\ messages' = d.msgs
    /\ wire' = SubSeq(rx, 1, Len(rx) - Len(d.rest))
    /\ last' = [Call("read_all_msg", <<>>, RetOfDrain(d), d.wr, <<>>,
                     d.status, Unset, Unset, d.got, d.queued)
                   EXCEPT !.pre = [id |-> message_id, msgs |-> messages,
                                   line |-> rx]]

\* self.read_all_msg()
ReadAllMsg ==
    /\ Drain(read_all_msg(rx, messages))
    /\ UNCHANGED <<message_id, sent, overflow_checks>>
    /\ UNCHANGED <<frame, flip, stage, parsed, parsedDefs>>
    /\ UNCHANGED nodeVars

NextPort == PortPut \/ ReadSingleMsg \/ ReadSingleMsgRty \/ ReadAllMsg

SpecPort == Init /\ [][NextPort]_vars

\* runs of events the dongle puts on the line when frames stall
MaxStallSent == 2

\* a Request whose payload bytes are the values of ACK and NAK
ReportOfHeaders ==
    get_command(SerialMsg_new(Request, ApplicationCommandHandler, <<ACK, NAK>>))

\* a Request whose payload bytes are the value of SOF and a zero
ReportOfSof ==
    get_command(SerialMsg_new(Request, ApplicationCommandHandler, <<SOF, 0>>))

\* the frame with a timeout after its first k bytes
StalledAfter(f, k) ==
    SubSeq(f, 1, k) \o <<Timeout>> \o SubSeq(f, k + 1, Len(f))

\* what the line delivers in one run: frames that stall after the SOF byte,
\* after the length byte, within the payload and before the checksum, and a
\* frame that does not stall
StallItems ==
    {StalledAfter(RespAccepted, k) : k \in 1..5}
    \cup {StalledAfter(ReportSwitch, k) : k \in {1, 2, 5, 10}}
    \cup {StalledAfter(ReportOfHeaders, 4), StalledAfter(ReportOfSof, 4),
          RespAccepted}

\* the dongle puts a run of events on the line
PortStall ==
    /\ sent < MaxStallSent
    /\ \E c \in StallItems : rx' = rx \o c
    /\ sent' = sent + 1
    /\ UNCHANGED <<message_id, messages, overflow_checks, last>>
    /\ UNCHANGED codecVars
    /\ UNCHANGED nodeVars

NextStall == PortStall \/ ReadSingleMsg \/ ReadSingleMsgRty

SpecStall == Init /\ [][NextStall]_vars

-----------------------------------------------------------------------------
(* Claims about the frame codec (checked under SpecCodec)                   *)

\* C1: for every frame type, function and payload of at most 250 bytes,
\* parse(get_command(f)) succeeds and yields f again (type, function and
\* payload), and the XOR of the emitted bytes from the length byte through
\* the checksum byte, seeded with 0xFF, is zero.
C1_RoundTrip ==
    (FromEncode /\ frame.header = SOF) =>
        /\ parsed = Ok(frame)
        /\ parsedDefs = Ok(frame)
        /\ Xor(255, XorRange(wire, 2, Len(wire))) = 0

C1_Witness ==
    /\ FromEncode
    /\ frame.header = SOF
    /\ Len(frame.data) = MaxPayloadLen
    /\ parsed.ok
    /\ parsed.msg.data = frame.data

\* C2 as stated: replacing any single byte of a valid SOF frame (header,
\* length, type, function, payload or checksum) by a different value makes
\* parse fail with UnknownZWave.
C2_AnyFlipRejected ==
    FromFlip => parsed = Err("UnknownZWave")

\* C2 amended: replacing any single byte other than the header byte by a
\* different value makes parse fail with UnknownZWave, in driver/serial.rs
\* and in defs.rs alike (the length and checksum tests come before the type
\* and the function are looked up); replacing the header byte by ACK, NAK or
\* CAN makes parse succeed with that header-only frame, and by any other
\* value makes it fail (UnknownZWave in driver/serial.rs, Io(InvalidData) in
\* defs.rs).
C2_FlipRejectedExceptHeader ==
    FromFlip =>
        IF flip > 1
        THEN /\ parsed = Err("UnknownZWave")
             /\ parsedDefs = Err("UnknownZWave")
        ELSE IF wire[1] \in {ACK, NAK, CAN}
        THEN /\ parsed = Ok(new_header(wire[1]))
             /\ parsedDefs = Ok(new_header(wire[1]))
        ELSE /\ parsed = Err("UnknownZWave")
             /\ parsedDefs = Err("Io(InvalidData)")

C2_Witness ==
    /\ FromFlip
    /\ flip = Len(wire) - 1
    /\ Len(frame.data) = MaxFlipPayload
    /\ parsed = Err("UnknownZWave")

\* the conditions under which a slice starting with SOF is a frame, the
\* length byte compared as an integer / as a u8
C3_ShapeOk(lenOk) ==
    /\ Len(wire) >= 5
    /\ lenOk
    /\ wire[Len(wire)] = checksum(SubSeq(wire, 1, Len(wire) - 1))
    /\ wire[3] \in SerialMsgType
    /\ wire[4] \in SerialMsgFunction

C3_Outcome(accepted) ==
    IF accepted
    THEN parsed = Ok(SerialMsg_new(wire[3], wire[4],
                                   SubSeq(wire, 5, Len(wire) - 1)))
    ELSE parsed = Err("UnknownZWave")

\* C3 as stated: parse accepts a slice starting with SOF if and only if it
\* has at least 5 bytes, bytes[1] equals len-2, the last byte is the checksum
\* of the bytes before it and type and function are enumerated; the payload
\* is then bytes[4..len-1]; the empty slice and every rejected slice give
\* UnknownZWave.
C3_AcceptIffExactLength ==
    stage = "parsed" =>
        /\ wire = <<>> => parsed = Err("UnknownZWave")
        /\ ~parsed.ok => parsed.err = "UnknownZWave"
        /\ (wire # <<>> /\ wire[1] = SOF) =>
               C3_Outcome(C3_ShapeOk(wire[2] = Len(wire) - 2))

\* C3 amended: as stated, except that bytes[1] is compared with
\* (len-2) mod 256.
C3_AcceptIffLengthMod256 ==
    stage = "parsed" =>
        /\ wire = <<>> => parsed = Err("UnknownZWave")
        /\ ~parsed.ok => parsed.err = "UnknownZWave"
        /\ (wire # <<>> /\ wire[1] = SOF) =>
               C3_Outcome(C3_ShapeOk(wire[2] = (Len(wire) - 2) % 256))

C3_Witness ==
    /\ FromRaw
    /\ Len(wire) = LongRawPayload + 5
    /\ parsed.ok
    /\ Len(parsed.msg.data) = LongRawPayload

\* C4: parsing [0x06], [0x15], [0x18] yields the header-only ACK, NAK, CAN
\* frame, get_command of a header-only frame emits exactly that one byte,
\* and the two are inverse to each other.
C4_HeaderOnly ==
    /\ (FromRaw /\ Len(wire) = 1 /\ wire[1] \in {ACK, NAK, CAN}) =>
           /\ parsed = Ok(new_header(wire[1]))
           /\ get_command(parsed.msg) = wire
    /\ (FromEncode /\ frame.header # SOF) =>
           /\ wire = <<frame.header>>
           /\ parsed = Ok(frame)

C4_Witness ==
    /\ FromEncode
    /\ frame = new_header(CAN)
    /\ wire = <<CAN>>
    /\ parsed.ok
    /\ parsed.msg.header = CAN

-----------------------------------------------------------------------------
(* Claims about write, read and the message-id counter                      *)

\* the last call was a write that got as far as writing its request frame
RequestWritten == last.op = "write" /\ last.req # <<>>

\* tx is pre, then the request frame, then post, and pre and post hold
\* nothing but the ACK and NAK bytes that answer frames read
OnlyAnswers(bytes) == \A i \in 1..Len(bytes) : bytes[i] \in {ACK, NAK}

RequestOnceInTx ==
    \E i \in 0..(Len(last.tx) - Len(last.req)) :
        /\ SubSeq(last.tx, i + 1, i + Len(last.req)) = last.req
        /\ OnlyAnswers(SubSeq(last.tx, 1, i))
        /\ OnlyAnswers(SubSeq(last.tx, i + Len(last.req) + 1, Len(last.tx)))

\* C5: for every command c passed to write the bytes put on the stream are
\* exactly SOF, len(c)+5, 0x00, 0x13, c, 0x04, the newly assigned message
\* id, checksum; and when the dongle answers ACK and then the Response
\* 01 04 01 13 01 E8, write returns Ok with that same id.
C5_RequestBytes ==
    RequestWritten =>
        /\ message_id = last.pre.id + 1
        /\ Len(last.req) = Len(last.arg) + 7
        /\ SubSeq(last.req, 1, Len(last.req) - 1)
             = <<1, Len(last.arg) + 5, 0, 19>> \o last.arg \o <<4, message_id>>
        /\ Xor(255, XorRange(last.req, 2, Len(last.req))) = 0
        /\ RequestOnceInTx
        /\ (/\ last.first = Ok(new_header(ACK))
            /\ last.second = parse(<<1, 4, 1, 19, 1, 232>>)
            /\ last.second.ok)
           => last.ret = RetId(message_id)

C5_Witness ==
    /\ RequestWritten
    /\ last.arg = <<3, 3, 32, 1, 255>>
    /\ last.first = Ok(new_header(ACK))
    /\ last.second.ok
    /\ last.second.msg.data = <<1>>
    /\ last.ret = RetId(1)

\* the frame is a SOF Response to SendData, its payload as given
IsSendDataResponse(res, payloadOk) ==
    /\ res.ok
    /\ res.msg.header = SOF
    /\ res.msg.typ = Response
    /\ res.msg.func = SendData
    /\ payloadOk

\* C6 as stated: write returns Ok exactly when the first frame read after
\* sending the request is a header-only ACK and the next frame read is a
\* SOF Response whose function is SendData and whose payload's first byte
\* is 0x01; if the first frame is NAK, CAN or a SOF frame, or the second
\* frame is not such a Response, write returns Io(InvalidData).
C6_OkIffFirstByte ==
    RequestWritten =>
        LET ackd == last.first = Ok(new_header(ACK))
            resp == IsSendDataResponse(last.second,
                        /\ Len(last.second.msg.data) >= 1
                        /\ last.second.msg.data[1] = 1)
        IN  /\ last.ret.kind = "Ok" <=> (ackd /\ resp)
            /\ (last.first.ok /\ ~ackd) => last.ret = RetErr("Io(InvalidData)")
            /\ (ackd /\ last.second.ok /\ ~resp)
                   => last.ret = RetErr("Io(InvalidData)")

\* C6 amended: write returns Ok exactly when the first frame read after
\* sending the request is a header-only ACK and the next frame read is a
\* SOF Response whose function is SendData and whose payload is exactly the
\* one byte 0x01; if the first frame is NAK, CAN or a SOF frame, or the
\* second frame is a frame other than such a Response, write returns
\* Io(InvalidData); if one of the two reads fails (no frame in time, a frame
\* that does not parse), write returns that read's error.
C6_OkIffPayloadIsOne ==
    RequestWritten =>
        LET ackd == last.first = Ok(new_header(ACK))
            resp == IsSendDataResponse(last.second, last.second.msg.data = <<1>>)
        IN  /\ last.ret.kind = "Ok" <=> (ackd /\ resp)
            /\ (last.first.ok /\ ~ackd) => last.ret = RetErr("Io(InvalidData)")
            /\ (ackd /\ last.second.ok /\ ~resp)
                   => last.ret = RetErr("Io(InvalidData)")
            /\ ~last.first.ok => last.ret = RetErr(last.first.err)
            /\ (ackd /\ ~last.second.ok) => last.ret = RetErr(last.second.err)

C6_Witness ==
    /\ RequestWritten
    /\ last.first = Ok(new_header(ACK))
    /\ last.second.ok
    /\ last.second.msg.data = <<1, 0>>
    /\ last.ret = RetErr("Io(InvalidData)")

\* the dongle answered the request frame of the last write with CAN
AnsweredCan == RequestWritten /\ last.first = Ok(new_header(CAN))

\* C7 as stated: when the dongle answers the request frame of a write with
\* CAN, write returns Io(InvalidData) and the message-id counter has the
\* same value after the call as before it.
C7_CanKeepsCounter ==
    AnsweredCan =>
        /\ last.ret = RetErr("Io(InvalidData)")
        /\ message_id = last.pre.id

\* C7 amended: when the dongle answers the request frame of a write with
\* CAN, write returns Io(InvalidData) and the message-id counter stays
\* advanced: its value is the id that the refused request carried, one
\* after the value before the call.
C7_CanUsesUpId ==
    AnsweredCan =>
        /\ last.ret = RetErr("Io(InvalidData)")
        /\ message_id = last.pre.id + 1
        /\ message_id = last.req[Len(last.req) - 1]

C7_Witness ==
    /\ AnsweredCan
    /\ last.pre.id = 1
    /\ message_id = 2
    /\ last.ret = RetErr("Io(InvalidData)")

\* C8 (checked under SpecIds): starting from counter 0 the allocator never
\* returns 0, each call returns the previous id plus one, and the call
\* following id 255 returns 1, without overflow failure of the u8 counter.
C8_NextIdWraps ==
    last.op = "get_next_msg_id" =>
        /\ last.ret.kind = "Ok"
        /\ last.ret.id # 0
        /\ last.ret.id = (IF last.pre.id = 255 THEN 1 ELSE last.pre.id + 1)
        /\ message_id = last.ret.id

IsRequestFrame(m) == m.header = SOF /\ m.typ = Request

\* C9: no unsolicited frame is lost: every well-formed SOF Request frame the
\* dongle sends, also one that arrives while write waits for the link ACK
\* or for the API Response, is placed in the queue (and later returned by
\* read).  Here: the Request frames a call has read from the port are the
\* Request frames it has put in the queue.
C9_NoRequestLost ==
    SelectSeq(last.got, IsRequestFrame) = SelectSeq(last.queued, IsRequestFrame)

\* C10: read returns queued payloads in the order the frames were received:
\* it removes and returns the oldest queued element, and when the queue is
\* empty after draining it returns Io(Other) and leaves the queue empty.
C10_ReadIsFifo ==
    (last.op = "read" /\ last.drain = "ok") =>
        LET q == last.pre.msgs \o last.queued
        IN  IF q = <<>>
            THEN last.ret = RetErr("Io(Other)") /\ messages = <<>>
            ELSE last.ret = RetData(Head(q).data) /\ messages = Tail(q)

C10_Witness ==
    /\ last.op = "read"
    /\ last.drain = "ok"
    /\ Len(last.got) = 2
    /\ last.got[1].data = <<0, 3, 3, 32, 3, 255>>
    /\ last.got[2].data = <<0, 3, 3, 37, 3, 255>>
    /\ last.ret = RetData(<<0, 3, 3, 32, 3, 255>>)
    /\ Len(messages) = 1
    /\ messages[1].data = <<0, 3, 3, 37, 3, 255>>

-----------------------------------------------------------------------------
(* Claims about the node operations (checked under SpecNode)                *)

\* thread t has ended a switch_binary_get that returned Ok
GotValue(t) ==
    /\ pc[t].at = "done"
    /\ pc[t].op = "switch_binary_get"
    /\ pc[t].ret.ok

\* the frames that were in the queue when the request of t's operation was
\* written: those queued before the call and those its drain queued
QueuedBeforeRequest(t) == pc[t].w.pre.msgs \o pc[t].w.queued

\* C11: a per-node Get operation on node n returns a value decoded from a
\* report that node n sent in answer to that Get: never a value taken from
\* a frame that was received before the Get's request was written (the
\* payload read returns is the oldest in the queue, so no frame may be in
\* the queue when the request is written), nor from a frame of another
\* node (byte 1 of the payload is the source node).
C11_GetAnswersOwnReport ==
    \A t \in Threads :
        GotValue(t) =>
            /\ QueuedBeforeRequest(t) = <<>>
            /\ pc[t].r.ret.data[2] = pc[t].node

\* C12: every per-node operation holds the driver mutex from before its
\* write until after the read of its report: while a thread is between the
\* write and the read of a Get it holds the mutex, and the last call on the
\* driver is its own write.
C12_GuardHeldAcrossGet ==
    \A t \in Threads :
        pc[t].at = "written" => (mutex = t /\ last = pc[t].w)

-----------------------------------------------------------------------------
(* Claims about the driver's functions and what the line delivers          *)

\* C13 (checked under SpecCallback): whatever bytes the stream delivers,
\* write, read, get_node_ids and get_node_generic_class return a value (Ok
\* or Err) and never panic, also when a well-formed SOF Request frame with
\* function SendData and 0, 1 or 2 payload bytes is drained.
C13_NoPanic == last.ret.kind # "Panic"

\* the last call was get_node_ids and it read a second frame that parsed
ReadNodeIds ==
    /\ last.op = "get_node_ids"
    /\ last.first = Ok(new_header(ACK))
    /\ last.second.ok

\* the ids 1..232 whose bit is set in the node mask of a DiscoveryNodes
\* payload, in ascending order: id n is bit (n-1) mod 8 of payload byte
\* 3 + (n-1) div 8 (bytes 3 to 31, bits 0 to 7)
MaskIds(data) ==
    SelectSeq([n \in 1..232 |-> n],
              LAMBDA n : (data[4 + ((n - 1) \div 8)] \div (2^((n - 1) % 8))) % 2 = 1)

\* C14 (checked under SpecQuery): given a valid 34-byte DiscoveryNodes
\* payload, get_node_ids returns, in ascending order, exactly the node ids
\* whose bit is set in the bitmap, bit j of payload byte i standing for node
\* id (i-3)*8 + j + 1.
C14_NodeIdsAreTheMaskBits ==
    (/\ ReadNodeIds
     /\ Len(last.second.msg.data) = 34
     /\ last.second.msg.data[3] = 29)
    => last.ret = RetData(MaskIds(last.second.msg.data))

\* the last call was get_node_ids and it got as far as writing its request
AskedNodeIds == last.op = "get_node_ids" /\ last.req # <<>>

\* the port delivered a first reply: a frame, or bytes that are no frame
GotFirstReply == last.first.ok \/ last.first.err = "UnknownZWave"

\* the second frame's payload is not that of a node list
NotNodeList(data) == Len(data) # 34 \/ (Len(data) >= 3 /\ data[3] # 29)

\* get_node_ids wrote one DiscoveryNodes Request, 01 03 00 02 FE
OneDiscoveryRequest ==
    /\ last.req = <<1, 3, 0, 2, 254>>
    /\ RequestOnceInTx

\* the call gave no node ids and queued nothing after its drain
NoNodeIds ==
    /\ last.ret.kind = "Err"
    /\ messages = last.pre.msgs \o last.queued

\* C15 as stated: get_node_ids writes one DiscoveryNodes Request, requires a
\* header-only ACK as first reply (otherwise Io(InvalidData)), and returns
\* UnknownZWave whenever the second frame's payload length is not 34 or
\* payload[2] is not 0x1D; it never enqueues or returns node ids then.
C15_NoAckIsInvalidData ==
    AskedNodeIds =>
        /\ OneDiscoveryRequest
        /\ (GotFirstReply /\ last.first # Ok(new_header(ACK)))
               => (last.ret = RetErr("Io(InvalidData)") /\ NoNodeIds)
        /\ (ReadNodeIds /\ NotNodeList(last.second.msg.data))
               => (last.ret = RetErr("UnknownZWave") /\ NoNodeIds)

\* C15 amended: get_node_ids writes one DiscoveryNodes Request; if the first
\* reply is a frame other than a header-only ACK it returns
\* Io(InvalidData), if the first reply does not parse as a frame it returns
\* that read's UnknownZWave; it returns UnknownZWave whenever the second
\* frame's payload length is not 34 or payload[2] is not 0x1D; in none of
\* these cases does it enqueue or return node ids.
C15_NoAckIsAnError ==
    AskedNodeIds =>
        /\ OneDiscoveryRequest
        /\ (last.first.ok /\ last.first # Ok(new_header(ACK)))
               => (last.ret = RetErr("Io(InvalidData)") /\ NoNodeIds)
        /\ ~last.first.ok => (last.ret = RetErr(last.first.err) /\ NoNodeIds)
        /\ (ReadNodeIds /\ NotNodeList(last.second.msg.data))
               => (last.ret = RetErr("UnknownZWave") /\ NoNodeIds)

C15_Witness ==
    /\ AskedNodeIds
    /\ ReadNodeIds
    /\ Len(last.second.msg.data) = 34
    /\ last.second.msg.data[3] = 28
    /\ last.ret = RetErr("UnknownZWave")
    /\ messages = <<>>

\* the last call was get_node_generic_class and it read a second frame
ReadProtocolInfo ==
    /\ last.op = "get_node_generic_class"
    /\ last.first = Ok(new_header(ACK))
    /\ last.second.ok

\* C16: get_node_generic_class(node_id) returns UnknownZWave when the reply
\* payload length is not 6, and otherwise the generic type whose byte value
\* is payload[4], every byte that is no enumerated generic type giving
\* Unknown.
C16_GenericTypeOfByte4 ==
    ReadProtocolInfo =>
        IF Len(last.second.msg.data) # 6
        THEN last.ret = RetErr("UnknownZWave")
        ELSE /\ last.ret.kind = "Ok"
             /\ last.ret.id \in GenericType
             /\ last.ret.id = last.second.msg.data[5]
                    \/ (last.ret.id = 0
                        /\ last.second.msg.data[5] \notin
                             {1, 2, 3, 4, 6, 7, 8, 9, 15, 16, 17, 18, 19, 20,
                              21, 22, 23, 24, 32, 33, 34, 48, 49, 64, 80,
                              161, 255})

C16_Witness ==
    /\ ReadProtocolInfo
    /\ last.second.msg.data = <<211, 156, 0, 4, 5, 1>>
    /\ last.ret.kind = "Ok"
    /\ last.ret.id = 0

-----------------------------------------------------------------------------
(* The switch_binary_get scenario end to end (checked under SpecNode)       *)

\* the last four bytes of a payload
LastFour(data) == SubSeq(data, Len(data) - 3, Len(data))

\* thread t has ended a switch_binary_get that began with an empty queue and
\* a quiet line (its drain read no frame), whose write read the ACK and then
\* the SendData Response with payload 01, and whose read read one frame, a
\* Request whose 6-byte payload ends 03 25 03 FF
SwitchScenario(t) ==
    /\ pc[t].at = "done"
    /\ pc[t].op = "switch_binary_get"
    /\ pc[t].w.pre.msgs = <<>>
    /\ pc[t].w.got = <<new_header(ACK), SerialMsg_new(Response, SendData, <<1>>)>>
    /\ pc[t].w.first = Ok(new_header(ACK))
    /\ pc[t].w.second = Ok(SerialMsg_new(Response, SendData, <<1>>))
    /\ Len(pc[t].r.got) = 1
    /\ pc[t].r.got[1].header = SOF
    /\ pc[t].r.got[1].typ = Request
    /\ Len(pc[t].r.got[1].data) = 6
    /\ LastFour(pc[t].r.got[1].data) = <<3, 37, 3, 255>>

\* C17: with an empty queue and a quiet line, when the dongle answers the
\* Get frame of switch_binary_get with ACK, then the SendData Response with
\* payload 01, then a Request whose payload ends 03 25 03 FF, the call
\* returns Ok(true), and the host has written one ACK byte for each of the
\* two SOF frames it read and nothing else but its request frame.
C17_SwitchGetEndToEnd ==
    \A t \in Threads :
        SwitchScenario(t) =>
            /\ pc[t].ret.ok
            /\ pc[t].ret.val = TRUE
            /\ pc[t].w.req = get_command(SerialMsg_new(Request, SendData,
                    <<pc[t].node, 2, SWITCH_BINARY, 2, 4, pc[t].w.ret.id>>))
            /\ pc[t].w.tx = pc[t].w.req \o <<ACK>>
            /\ pc[t].r.tx = <<ACK>>

C17_Witness ==
    \E t \in Threads :
        /\ SwitchScenario(t)
        /\ pc[t].r.ret = RetData(<<0, 3, 3, 37, 3, 255>>)
        /\ pc[t].ret.ok
        /\ pc[t].ret.val = TRUE
        /\ pc[t].w.tx = <<1, 9, 0, 19, 3, 2, 37, 2, 4, pc[t].w.ret.id,
                          checksum(<<1, 9, 0, 19, 3, 2, 37, 2, 4,
                                     pc[t].w.ret.id>>), ACK>>
        /\ pc[t].r.tx = <<ACK>>

-----------------------------------------------------------------------------
(* Claims about the report decoders (checked under SpecDecode)              *)

\* a payload of exactly 6 bytes whose bytes 3 and 4 (counted from 0) are the
\* command class and the command 0x03
IsReportOf(class, msg) == Len(msg) = 6 /\ msg[4] = class /\ msg[5] = 3

\* C18: Basic::report returns Ok(payload[5]) if and only if the payload has
\* exactly 6 bytes with payload[3] = 0x20 and payload[4] = 0x03; every other
\* payload gives UnknownZWave.
C18_BasicReportIffShape ==
    decoded.fn = "Basic::report" =>
        IF IsReportOf(32, payload)
        THEN decoded.res.ok /\ decoded.res.val = payload[6]
        ELSE ~decoded.res.ok /\ decoded.res.err = "UnknownZWave"

C18_Witness ==
    /\ decoded.fn = "Basic::report"
    /\ payload = <<0, 3, 3, 32, 3, 99>>
    /\ decoded.res.ok
    /\ decoded.res.val = 99

\* C19: SwitchBinary::set encodes true as value byte 0xFF and false as 0x00;
\* SwitchBinary::report decodes value byte 0xFF as true and every byte
\* below 0xFF as false; so decoding a report that carries the byte produced
\* by set(b) returns b, for both booleans.
C19_SetReportRoundTrip ==
    /\ \A node \in Nodes :
          /\ SwitchBinary_set(node, TRUE) = <<node, 3, 37, 1, 255>>
          /\ SwitchBinary_set(node, FALSE) = <<node, 3, 37, 1, 0>>
    /\ (decoded.fn = "SwitchBinary::report" /\ IsReportOf(37, payload)) =>
          /\ decoded.res.ok
          /\ decoded.res.val = (payload[6] = 255)
    /\ (decoded.fn = "SwitchBinary::report" /\ decoded.set.ok) =>
          /\ payload[6] = (IF decoded.set.val THEN 255 ELSE 0)
          /\ decoded.res.ok
          /\ decoded.res.val = decoded.set.val

C19_Witness ==
    /\ decoded.fn = "SwitchBinary::report"
    /\ decoded.set.ok
    /\ decoded.set.val = FALSE
    /\ payload = <<0, 3, 3, 37, 3, 0>>
    /\ decoded.res.ok
    /\ decoded.res.val = FALSE

\* the size and the scale a meter payload of 8 bytes or more announces
SizeOf(msg) == msg[7] % 8
ScaleOf(msg) == (msg[7] \div 8) % 4

\* a payload with payload[3] = 0x32, payload[4] = 0x02, a meter type in
\* {1, 2, 3} and total length exactly 7 + size
IsMeterReport(msg) ==
    /\ Len(msg) >= 8
    /\ msg[4] = 50
    /\ msg[5] = 2
    /\ msg[6] \in {1, 2, 3}
    /\ Len(msg) = 7 + SizeOf(msg)

\* the MeterData variant of a (type, scale) pair, "none" where there is none
VariantOf(typ, scale) ==
    CASE <<typ, scale>> = <<1, 0>> -> "Electric_kWh"
      [] <<typ, scale>> = <<1, 1>> -> "Electric_kVAh"
      [] <<typ, scale>> = <<1, 2>> -> "Electric_W"
      [] <<typ, scale>> = <<1, 3>> -> "Electric_PulseCount"
      [] <<typ, scale>> = <<2, 0>> -> "Gas_meter2"
      [] <<typ, scale>> = <<2, 1>> -> "Gas_feet2"
      [] <<typ, scale>> = <<2, 3>> -> "Gas_PulseCount"
      [] <<typ, scale>> = <<3, 0>> -> "Water_meter2"
      [] <<typ, scale>> = <<3, 1>> -> "Water_feet2"
      [] <<typ, scale>> = <<3, 2>> -> "Water_Gallons"
      [] <<typ, scale>> = <<3, 3>> -> "Water_PulseCount"
      [] OTHER -> "none"

\* C20: Meter::report succeeds only for payloads with payload[3] = 0x32,
\* payload[4] = 0x02, a meter type in {1, 2, 3} and total length exactly
\* 7 + size, and then exactly when the (type, scale) pair has a MeterData
\* variant, which tags the value; the pair without a variant (Gas, scale 2)
\* and every wrong shape give UnknownZWave.  For type Electric, precision
\* 1, scale 0, size 2 and value bytes 00 7B the result is Electric_kWh of
\* 123 with one decimal place (12.3).
C20_MeterReportTagsValue ==
    decoded.fn = "Meter::report" =>
        /\ decoded.res.ok <=>
              (IsMeterReport(payload)
                  /\ VariantOf(payload[6], ScaleOf(payload)) # "none")
        /\ decoded.res.ok =>
              decoded.res.val.variant = VariantOf(payload[6], ScaleOf(payload))
        /\ ~decoded.res.ok => decoded.res.err = "UnknownZWave"
        /\ (IsMeterReport(payload) /\ payload[6] = 2 /\ ScaleOf(payload) = 2)
              => ~decoded.res.ok
        /\ (Len(payload) = 9 /\ SubSeq(payload, 4, 9) = <<50, 2, 1, 34, 0, 123>>)
              => /\ decoded.res.ok
                 /\ decoded.res.val = MeterData("Electric_kWh", Decimal(123, 1))

C20_Witness ==
    /\ decoded.fn = "Meter::report"
    /\ payload = <<0, 3, 6, 50, 2, 1, 34, 0, 123>>
    /\ decoded.res.ok
    /\ decoded.res.val.variant = "Electric_kWh"
    /\ decoded.res.val.data.mant = 123
    /\ decoded.res.val.data.prec = 1

\* the bytes of a version 2 meter payload that follow its delta time
\* directly, as many as the size says
BytesAfterTime(msg) ==
    SubSeq(msg, 10 + SizeOf(msg), 9 + 2 * SizeOf(msg))

\* the delta time of a version 2 meter payload: the big-endian u16 in the
\* two bytes directly after the value bytes
TimeAfterValue(msg) ==
    msg[8 + SizeOf(msg)] * 256 + msg[9 + SizeOf(msg)]

\* C21: Meter::report_v2 returns (previous, delta_time, current) where
\* delta_time is the big-endian u16 in the two bytes directly after the size
\* value bytes, current is decoded from the value bytes, and previous is 0
\* when delta_time is 0 or the payload is too short to contain size bytes
\* after delta_time, and else is decoded from the size bytes directly after
\* delta_time.
C21_PreviousFollowsDeltaTime ==
    (decoded.fn = "Meter::report_v2" /\ decoded.res.ok) =>
        /\ decoded.res.val[2] = TimeAfterValue(payload)
        /\ decoded.res.val[3].data =
              calc_value(SubSeq(payload, 8, 7 + SizeOf(payload)),
                         payload[7] \div 32)
        /\ IF TimeAfterValue(payload) = 0
              \/ Len(payload) < 9 + 2 * SizeOf(payload)
           THEN decoded.res.val[1].data.mant = 0
           ELSE decoded.res.val[1].data =
                  calc_value(BytesAfterTime(payload), payload[7] \div 32)

\* C22: PowerLevel::report accepts only 7-byte payloads with class 0x73,
\* command 0x03 and a level byte in 0x00..0x09 and returns (level,
\* payload[6]); PowerLevel::test_node_report accepts only 9-byte payloads
\* with class 0x73, command 0x06 and a status byte in 0..2 and returns
\* (payload[5], status, payload[7] * 256 + payload[8]); trailing bytes
\* 06 04 01 00 0A give (4, TestSuccess, 10).  Every other payload gives
\* UnknownZWave.
C22_PowerLevelReports ==
    /\ decoded.fn = "PowerLevel::report" =>
          IF /\ Len(payload) = 7
             /\ payload[4] = 115
             /\ payload[5] = 3
             /\ payload[6] \in 0..9
          THEN decoded.res.ok /\ decoded.res.val = <<payload[6], payload[7]>>
          ELSE ~decoded.res.ok /\ decoded.res.err = "UnknownZWave"
    /\ decoded.fn = "PowerLevel::test_node_report" =>
          IF /\ Len(payload) = 9
             /\ payload[4] = 115
             /\ payload[5] = 6
             /\ payload[7] \in 0..2
          THEN /\ decoded.res.ok
               /\ decoded.res.val =
                     <<payload[6], payload[7], payload[8] * 256 + payload[9]>>
          ELSE ~decoded.res.ok /\ decoded.res.err = "UnknownZWave"

C22_Witness ==
    /\ decoded.fn = "PowerLevel::test_node_report"
    /\ Len(payload) = 9
    /\ SubSeq(payload, 5, 9) = <<6, 4, 1, 0, 10>>
    /\ decoded.res.ok
    /\ decoded.res.val = <<4, 1, 10>>

-----------------------------------------------------------------------------
(* Claims about Controller::new (checked under SpecController)              *)

\* the lists Node::new leaves in the node made by the k-th turn of the loop:
\* those of the report its own read returned, empty if its round trip failed
ListsOfOwnRoundTrip(k) ==
    IF controller.calls[k].ret.ok
    THEN Node(controller.ids[k], controller.calls[k].ret.val.types,
              controller.calls[k].ret.val.cmds)
    ELSE Node(controller.ids[k], <<>>, <<>>)

\* C23: Controller construction fails if and only if get_node_ids fails;
\* otherwise the controller holds exactly one Node per returned id, in
\* order, and a NodeInfo round trip that fails for a node leaves that node
\* in the inventory with empty type and command-class lists, without
\* failing the construction and without touching the other nodes.
C23_OnlyDiscoveryFailsConstruction ==
    controller.at # "none" =>
        /\ controller.at \in {"failed", "panicked"}
              <=> controller.discovery.ret.kind # "Ok"
        /\ controller.at \in {"nodes", "done"} =>
              /\ controller.ids = controller.discovery.ret.data
              /\ Len(controller.nodes) <= Len(controller.ids)
              /\ Len(controller.calls) = Len(controller.nodes)
              /\ \A k \in 1..Len(controller.nodes) :
                    controller.nodes[k] = ListsOfOwnRoundTrip(k)
        /\ controller.at = "done" =>
              Len(controller.nodes) = Len(controller.ids)

-----------------------------------------------------------------------------
(* Claims about the reading functions (checked under SpecPort)              *)

\* how often the line timed out within the events
Timeouts(events) == Len(SelectSeq(events, LAMBDA e : e = Timeout))

\* the call took a whole SOF frame from the line: the header, the length
\* byte and as many bytes as it counts, none of them missing
CompleteSof ==
    /\ last.op = "read_single_msg"
    /\ Len(wire) >= 2
    /\ wire[1] = SOF
    /\ Timeouts(wire) = 0
    /\ Len(wire) = wire[2] + 2

\* the call took one byte that is not SOF from the line
HeaderOnly ==
    /\ last.op = "read_single_msg"
    /\ Len(wire) >= 1
    /\ wire[1] \notin {SOF, Timeout}

\* C24: when read_single_msg has read a complete SOF frame it writes exactly
\* one byte back: ACK if and only if the frame parses, NAK otherwise; after
\* a header-only frame or an unknown header it writes nothing.
C24_OneAnswerPerFrame ==
    /\ CompleteSof =>
          /\ Len(last.tx) = 1
          /\ last.tx = <<ACK>> <=> parse(wire).ok
          /\ last.tx = <<NAK>> <=> ~parse(wire).ok
          /\ last.first.ok <=> parse(wire).ok
    /\ HeaderOnly => last.tx = <<>>

\* a complete frame with a wrong checksum was read and answered with NAK
C24_Witness ==
    /\ CompleteSof
    /\ Len(wire) >= 5
    /\ ~last.first.ok
    /\ last.tx = <<NAK>>

\* the line held a whole SOF frame when read_single_msg was called
LineHoldsFrame(line) ==
    /\ Len(line) >= 2
    /\ line[1] = SOF
    /\ line[2] # Timeout
    /\ Len(line) >= line[2] + 2
    /\ Timeouts(SubSeq(line, 1, line[2] + 2)) = 0

\* C25: read_single_msg takes exactly one byte from the line for an ACK, NAK,
\* CAN or unknown header, and exactly L + 2 bytes for a frame that starts
\* with SOF and has the length byte L, L < 3 included, which is answered
\* with NAK; an unknown header returns UnknownZWave.
C25_ConsumesOneFrame ==
    last.op = "read_single_msg" =>
        /\ (last.pre.line # <<>> /\ last.pre.line[1] \notin {SOF, Timeout}) =>
              /\ wire = SubSeq(last.pre.line, 1, 1)
              /\ last.pre.line[1] \notin {ACK, NAK, CAN}
                    <=> last.first = Err("UnknownZWave")
              /\ last.pre.line[1] \in {ACK, NAK, CAN} => last.first.ok
        /\ LineHoldsFrame(last.pre.line) =>
              /\ wire = SubSeq(last.pre.line, 1, last.pre.line[2] + 2)
              /\ last.pre.line[2] < 3 => last.tx = <<NAK>>

\* a frame with the length byte 255 was read and more was left on the line
C25_Witness ==
    /\ last.op = "read_single_msg"
    /\ LineHoldsFrame(last.pre.line)
    /\ last.pre.line[2] = 255
    /\ Len(wire) = 257
    /\ Len(last.pre.line) > 257

\* the timeouts the line starts with
RECURSIVE LeadingTimeouts(_)
LeadingTimeouts(line) ==
    IF line = <<>> \/ line[1] # Timeout THEN 0
    ELSE 1 + LeadingTimeouts(Tail(line))

\* the line without the timeouts it starts with
AfterTimeouts(line) ==
    SubSeq(line, LeadingTimeouts(line) + 1, Len(line))

\* C26: read_single_msg_rty(n) reads at most n times: with n <= 0 it returns
\* Io(TimedOut) without reading; after n attempts that timed out it returns
\* Io(TimedOut); the first attempt that gives a frame or another error ends
\* the call with that frame or error.
C26_RetriesOnlyTimeouts ==
    last.op = "read_single_msg_rty" =>
        /\ last.arg[1] <= 0 =>
              /\ last.first = Err("Io(TimedOut)")
              /\ wire = <<>>
              /\ last.tx = <<>>
        /\ (last.arg[1] > 0 /\ LeadingTimeouts(last.pre.line) >= last.arg[1]) =>
              /\ last.first = Err("Io(TimedOut)")
              /\ wire = SubSeq(last.pre.line, 1, last.arg[1])
              /\ last.tx = <<>>
        /\ ( /\ last.arg[1] > LeadingTimeouts(last.pre.line)
             /\ AfterTimeouts(last.pre.line) # <<>>
             /\ read_single_msg(AfterTimeouts(last.pre.line)).res
                   # Err("Io(TimedOut)") ) =>
              /\ last.first = read_single_msg(AfterTimeouts(last.pre.line)).res
              /\ last.tx = read_single_msg(AfterTimeouts(last.pre.line)).wr
              /\ Len(wire) = Len(last.pre.line)
                    - Len(read_single_msg(AfterTimeouts(last.pre.line)).rest)
              /\ Timeouts(wire) < last.arg[1]

\* three tries timed out one after the other while a frame was still to come
C26_Witness ==
    /\ last.op = "read_single_msg_rty"
    /\ last.arg = <<3>>
    /\ wire = Quiet
    /\ Len(last.pre.line) > 3
    /\ last.first = Err("Io(TimedOut)")

\* the frames of the sequence that are SOF Requests
RequestsOf(frames) ==
    SelectSeq(frames, LAMBDA m : m.header = SOF /\ m.typ = Request)

\* C27: a drain ends with Ok when reading times out and with the error when
\* another error occurs, and every SOF Request frame read during the drain
\* is appended to the queue of unsolicited messages, whatever its function
\* and payload.
C27_DrainQueuesEveryRequest ==
    last.op = "read_all_msg" =>
        /\ last.ret.kind \in {"Ok", "Err"}
        /\ last.ret.kind = "Err" => last.ret.err # "Io(TimedOut)"
        /\ RequestsOf(last.got) = RequestsOf(last.queued)
        /\ messages = last.pre.msgs \o last.queued

-----------------------------------------------------------------------------
(* Claims about what write transmits (checked under Spec)                   *)

\* how often the request frame of the call is found in the bytes it wrote
TimesInTx ==
    Cardinality({i \in 1..(Len(last.tx) - Len(last.req) + 1) :
                    SubSeq(last.tx, i, i + Len(last.req) - 1) = last.req})

\* the call put its request on the port and then failed: no answer or an
\* answer that is no ACK, or no Response or a Response that refuses
FailedAfterRequest ==
    /\ last.op = "write"
    /\ last.req # <<>>
    /\ \/ ~last.first.ok
       \/ last.first.msg.header # ACK
       \/ ~last.second.ok
       \/ Refused(last.second.msg)

\* C28: within one write call the request frame is put on the port at most
\* once: after a NAK, a CAN, a refused Response or a timeout of the wait for
\* the ACK or the Response, write returns the error and has transmitted the
\* frame once.
C28_RequestNeverResent ==
    /\ (last.op = "write" /\ last.req # <<>>) => TimesInTx <= 1
    /\ (last.op = "write" /\ last.req = <<>>) => OnlyAnswers(last.tx)
    /\ FailedAfterRequest =>
          /\ last.ret.kind = "Err"
          /\ TimesInTx = 1
          /\ RequestOnceInTx

\* the dongle answered the request with NAK and write gave up after one
\* transmission
C28_Witness ==
    /\ FailedAfterRequest
    /\ last.first.ok
    /\ last.first.msg.header = NAK
    /\ last.ret = RetErr("Io(InvalidData)")
    /\ TimesInTx = 1

-----------------------------------------------------------------------------
(* Claims about the checksum (checked under SpecCodec)                      *)

\* bit k (1, 2, 4 .. 128) of 0xFF ^ data[1] ^ ... ^ data[n-1], counted: the
\* bit of 0xFF and one for every byte behind the first that has the bit set
ChecksumBit(data, k) ==
    (1 + Cardinality({i \in 2..Len(data) : (data[i] \div k) % 2 = 1})) % 2

\* 0xFF ^ data[1] ^ ... ^ data[n-1] put together from its bits
ChecksumByBits(data) ==
    ChecksumBit(data, 1) + 2 * ChecksumBit(data, 2)
        + 4 * ChecksumBit(data, 4) + 8 * ChecksumBit(data, 8)
        + 16 * ChecksumBit(data, 16) + 32 * ChecksumBit(data, 32)
        + 64 * ChecksumBit(data, 64) + 128 * ChecksumBit(data, 128)

\* the first bytes the checksum of the wire is computed with: the headers,
\* the smallest and the largest byte, and the checksum itself
FirstBytes == {0, SOF, ACK, NAK, CAN, 255, checksum(wire)}

\* C29: checksum(data) is 0xFF XOR data[1] XOR ... XOR data[n-1]: it does
\* not depend on data[0], it is 0xFF for inputs of length 0 or 1, and
\* checksum([0x01, 0x03, 0x20]) = 0xDC.
C29_ChecksumSkipsFirstByte ==
    /\ checksum(<<1, 3, 32>>) = 220
    /\ checksum(<<1, 8, 0, 19, 2, 3, 32, 1, 0>>) = 196
    /\ checksum(wire) = ChecksumByBits(wire)
    /\ Len(wire) <= 1 => checksum(wire) = 255
    /\ wire # <<>> =>
          \A h \in FirstBytes :
              checksum([wire EXCEPT ![1] = h]) = checksum(wire)

\* a frame was encoded and its last byte is the checksum of the bytes
\* before it
C29_Witness ==
    /\ stage = "encoded"
    /\ Len(wire) > 5
    /\ wire[Len(wire)] = ChecksumByBits(SubSeq(wire, 1, Len(wire) - 1))

-----------------------------------------------------------------------------
(* Claims about the precision, scale and size byte (checked under          *)
(* SpecDecode)                                                              *)

\* bit k (0 the lowest) of the byte
BitOf(b, k) == (b \div (2 ^ k)) % 2

\* C30: for every byte b, get_precision_scale_size(b) is
\* (b >> 5, (b >> 3) & 3, b & 7): the precision is the bits 7..5 and in
\* 0..7, the scale the bits 4..3 and in 0..3, the size the bits 2..0 and in
\* 0..7, and (precision << 5) | (scale << 3) | size gives b back.
C30_PssUnpacksEveryBit ==
    /\ \A b \in Byte :
          /\ get_precision_scale_size(b).precision
                = 4 * BitOf(b, 7) + 2 * BitOf(b, 6) + BitOf(b, 5)
          /\ get_precision_scale_size(b).scale
                = 2 * BitOf(b, 4) + BitOf(b, 3)
          /\ get_precision_scale_size(b).size
                = 4 * BitOf(b, 2) + 2 * BitOf(b, 1) + BitOf(b, 0)
          /\ get_precision_scale_size(b).precision \in 0..7
          /\ get_precision_scale_size(b).scale \in 0..3
          /\ get_precision_scale_size(b).size \in 0..7
          /\ get_precision_scale_size(b).precision * 32
                + get_precision_scale_size(b).scale * 8
                + get_precision_scale_size(b).size = b
    /\ get_precision_scale_size(0) = [precision |-> 0, scale |-> 0, size |-> 0]
    /\ get_precision_scale_size(224) = [precision |-> 7, scale |-> 0, size |-> 0]
    /\ get_precision_scale_size(56) = [precision |-> 1, scale |-> 3, size |-> 0]
    /\ get_precision_scale_size(41) = [precision |-> 1, scale |-> 1, size |-> 1]
    /\ (decoded.fn = "Meter::report" /\ decoded.res.ok) =>
          /\ Len(payload) = 7 + get_precision_scale_size(payload[7]).size
          /\ Len(payload) - 7
                + 8 * get_precision_scale_size(payload[7]).scale
                + 32 * get_precision_scale_size(payload[7]).precision
                = payload[7]

\* a Meter report with the byte 0b00101001 was decoded: precision 1, scale 1
\* and one value byte
C30_Witness ==
    /\ decoded.fn = "Meter::report"
    /\ decoded.res.ok
    /\ Len(payload) = 8
    /\ payload[7] = 41

-----------------------------------------------------------------------------
(* Claims about Meter::calc_value (checked under SpecDecode)                *)

\* the bytes read as a big-endian number without a sign
RECURSIVE BigEndian(_)
BigEndian(bytes) ==
    IF bytes = <<>> THEN 0
    ELSE BigEndian(SubSeq(bytes, 1, Len(bytes) - 1)) * 256 + bytes[Len(bytes)]

\* every bit of every byte turned over
Inverted(bytes) == [i \in 1..Len(bytes) |-> 255 - bytes[i]]

\* the bytes read as a big-endian two's-complement number: with the top bit
\* set it is minus the number of the inverted bytes, minus one
TwosComplement(bytes) ==
    IF bytes[1] >= 128 THEN (0 - BigEndian(Inverted(bytes))) - 1
    ELSE BigEndian(bytes)

\* the value bytes of a Meter report payload
ValueBytesOf(msg) == SubSeq(msg, 8, Len(msg))

\* byte sequences of the lengths calc_value has no arm for
OtherLengths ==
    {<<>>, <<1, 2, 3>>, <<255, 255, 255>>, <<1, 2, 3, 4, 5>>,
     <<128, 0, 0, 0, 0, 0>>, <<255, 255, 255, 255, 255, 255, 255>>}

\* C31: calc_value reads 1, 2 or 4 value bytes as a big-endian
\* two's-complement signed integer (-128..127, -32768..32767,
\* -2^31..2^31-1) scaled by 10^-precision, [0x80] with precision 1 is -12.8
\* and [0x7F, 0xFF] with precision 3 is 32.767; for every other byte count
\* it returns 0 and no error.
C31_CalcValueSigned ==
    /\ calc_value(<<128>>, 1) = Decimal(-128, 1)
    /\ calc_value(<<127, 255>>, 3) = Decimal(32767, 3)
    /\ calc_value(<<128, 0>>, 2) = Decimal(-32768, 2)
    /\ calc_value(<<127, 255, 255, 255>>, 3) = Decimal(2147483647, 3)
    /\ calc_value(<<128, 0, 0, 0>>, 2) = Decimal(-2147483647 - 1, 2)
    /\ \A b \in Byte :
          /\ calc_value(<<b>>, b % 8) = Decimal(TwosComplement(<<b>>), b % 8)
          /\ calc_value(<<b>>, b % 8).mant \in (-128)..127
          /\ calc_value(<<b, 255 - b>>, b % 8)
                = Decimal(TwosComplement(<<b, 255 - b>>), b % 8)
          /\ calc_value(<<b, 255 - b>>, b % 8).mant \in (-32768)..32767
          /\ calc_value(<<b, 0, 255, b>>, b % 8)
                = Decimal(TwosComplement(<<b, 0, 255, b>>), b % 8)
    /\ \A bytes \in OtherLengths, p \in 0..7 :
          calc_value(bytes, p) = Decimal(0, 0)
    /\ (decoded.fn = "Meter::report" /\ decoded.res.ok) =>
          decoded.res.val.data =
              IF Len(ValueBytesOf(payload)) \in {1, 2, 4}
              THEN Decimal(TwosComplement(ValueBytesOf(payload)),
                           payload[7] \div 32)
              ELSE Decimal(0, 0)

\* a Meter report with the two value bytes FF 85 was decoded as -123
C31_Witness ==
    /\ decoded.fn = "Meter::report"
    /\ decoded.res.ok
    /\ Len(payload) = 9
    /\ ValueBytesOf(payload) = <<255, 133>>
    /\ decoded.res.val.data.mant = -123

-----------------------------------------------------------------------------
(* Claims about the frame count of a power-level test (checked under        *)
(* SpecTestFrames)                                                          *)

\* the two frame-count bytes of the report payload
CountBytes == SubSeq(payload, 8, 9)

\* C32: for every u16 x, transform_u16_to_array_of_u8(x) is
\* [x div 256, x mod 256], and transform_array_of_u8_to_u16 is its inverse
\* both ways: u16 -> bytes -> u16 and bytes -> u16 -> bytes give back what
\* went in.
C32_FrameCountRoundTrip ==
    /\ transform_u16_to_array_of_u8(0) = <<0, 0>>
    /\ transform_u16_to_array_of_u8(1) = <<0, 1>>
    /\ transform_u16_to_array_of_u8(256) = <<1, 0>>
    /\ transform_u16_to_array_of_u8(257) = <<1, 1>>
    /\ transform_array_of_u8_to_u16(1, 1) = 257
    /\ (decoded.set.ok /\ Len(payload) = 9) =>
          /\ CountBytes = <<decoded.set.val \div 256, decoded.set.val % 256>>
          /\ transform_u16_to_array_of_u8(decoded.set.val) = CountBytes
          /\ transform_array_of_u8_to_u16(payload[8], payload[9])
                = decoded.set.val
          /\ transform_u16_to_array_of_u8(
                 transform_array_of_u8_to_u16(payload[8], payload[9]))
                = CountBytes
    /\ (decoded.set.ok /\ decoded.fn = "PowerLevel::test_node_report") =>
          /\ decoded.res.ok
          /\ decoded.res.val[3] = decoded.set.val

\* a test with 0xABCD frames was set and the report of the node gave the
\* count back
C32_Witness ==
    /\ decoded.fn = "PowerLevel::test_node_report"
    /\ decoded.set.ok
    /\ decoded.set.val = 43981
    /\ payload[8] = 171
    /\ payload[9] = 205
    /\ decoded.res.ok
    /\ decoded.res.val[3] = 43981

-----------------------------------------------------------------------------
(* Claims about the node information report (checked under SpecInfo)        *)

\* the bytes of the sequence that are in the set, in their order
RECURSIVE Kept(_, _)
Kept(bytes, allowed) ==
    IF bytes = <<>> THEN <<>>
    ELSE IF bytes[1] \in allowed THEN <<bytes[1]>> \o Kept(Tail(bytes), allowed)
    ELSE Kept(Tail(bytes), allowed)

\* C33: the node information report parser returns an error for payloads
\* shorter than 6 bytes; otherwise types is the list, in payload order, of
\* the bytes at indices 2..5 that are enumerated generic types other than
\* Unknown, and classes the list, in payload order, of the bytes at indices
\* 6 and above that are enumerated command classes other than NO_OPERATION;
\* other bytes are skipped and cause no error.
C33_NodeInfoKeepsEnumerated ==
    decoded.fn = "NodeInfo::report" =>
        /\ Len(payload) < 6 => decoded.res = DecErr("UnknownZWave")
        /\ Len(payload) >= 6 =>
              /\ decoded.res.ok
              /\ decoded.res.val.types
                    = Kept(SubSeq(payload, 3, 6), GenericType \ {0})
              /\ decoded.res.val.cmds
                    = Kept(SubSeq(payload, 7, Len(payload)), CommandClass \ {0})

\* a payload with the types 10 01 .. FF around a byte that is no type and
\* the classes 25 20 around bytes that are none was parsed
C33_Witness ==
    /\ decoded.fn = "NodeInfo::report"
    /\ payload = <<132, 2, 16, 1, 5, 255, 0, 37, 0, 250, 32>>
    /\ decoded.res.ok
    /\ decoded.res.val.types = <<16, 1, 255>>
    /\ decoded.res.val.cmds = <<37, 32>>

-----------------------------------------------------------------------------
(* Claims about Message::parse of cc/msg.rs (checked under SpecMessage)     *)

\* C34: Message::parse returns a value for every byte sequence and never
\* panics: every input shorter than 4 bytes (a 3-byte input whose length
\* byte is 1 included) gives Err(UnknownZWave), and an input of 4 or more
\* bytes is accepted exactly when data[1] = len - 2 and data[2] is an
\* enumerated command class.
C34_MessageParseNeverPanics ==
    decoded.fn = "Message::parse" =>
        /\ decoded.res # DecErr("panic")
        /\ Len(payload) < 4 => decoded.res = DecErr("UnknownZWave")
        /\ Len(payload) >= 4 =>
              /\ decoded.res.ok <=>
                    (payload[2] = Len(payload) - 2 /\ payload[3] \in CommandClass)
              /\ ~decoded.res.ok => decoded.res = DecErr("UnknownZWave")

-----------------------------------------------------------------------------
(* Claims about the queue of the driver (checked under SpecPort)            *)

\* every frame of the sequence is a SOF frame with at least one payload byte
AllWithPayload(frames) ==
    \A i \in 1..Len(frames) :
        frames[i].header = SOF /\ Len(frames[i].data) >= 1

\* C35: in every reachable state of the driver every element of the message
\* queue is a SOF frame with at least one payload byte: header-only frames
\* and SOF frames without payload read by a drain are discarded, and read
\* never returns an empty payload.
C35_QueueHoldsPayloads ==
    /\ AllWithPayload(messages)
    /\ last.op = "read_all_msg" =>
          /\ AllWithPayload(last.queued)
          /\ Len(last.queued) <= Len(last.got)
    /\ read(message_id, messages, rx).call.ret.kind = "Ok" =>
          /\ Len(read(message_id, messages, rx).call.ret.data) >= 1
          /\ AllWithPayload(read(message_id, messages, rx).messages)

\* a drain read a SOF frame without payload and a frame with payload, and
\* queued the second only
C35_Witness ==
    /\ last.op = "read_all_msg"
    /\ Len(last.got) = 2
    /\ last.got[1].header = SOF
    /\ last.got[1].data = <<>>
    /\ Len(last.queued) = 1
    /\ messages = last.queued
    /\ read(message_id, messages, rx).call.ret.kind = "Ok"

-----------------------------------------------------------------------------
(* Claims about a write whose drain fails (checked under Spec)              *)

\* C36: if the drain at the start of write fails with an error that is no
\* timeout, write returns that error, no byte of the request frame has been
\* written to the port, and message_id is unchanged.
C36_FailedDrainWritesNothing ==
    (last.op = "write" /\ last.drain = "err") =>
        /\ last.ret = RetErr("UnknownZWave")
        /\ last.req = <<>>
        /\ OnlyAnswers(last.tx)
        /\ last.first = Unset
        /\ message_id = last.pre.id
        /\ \A i \in 1..Len(last.tx) :
              last.tx[i] = NAK => i = Len(last.tx)

\* the drain of a write read a frame with a wrong checksum, answered NAK and
\* failed; write returned the error
C36_Witness ==
    /\ last.op = "write"
    /\ last.drain = "err"
    /\ last.ret = RetErr("UnknownZWave")
    /\ last.tx # <<>>
    /\ last.tx[Len(last.tx)] = NAK
    /\ message_id = last.pre.id

-----------------------------------------------------------------------------
(* Claims about Controller::discover_nodes called again (checked under      *)
(* SpecDiscover)                                                            *)

\* the ids of the nodes of the controller, in the order of the list
IdsOfNodes(c) == [i \in 1..Len(c.nodes) |-> c.nodes[i].id]

\* C37: discover_nodes clears the node list before it asks the driver: after
\* a call that returned an error the node list is empty whatever it held
\* before, and after a successful call it holds exactly the ids returned by
\* get_node_ids, in that order.
C37_DiscoverReplacesNodes ==
    /\ controller.at = "failed" =>
          /\ controller.discovery.ret.kind = "Err"
          /\ controller.nodes = <<>>
    /\ (controller.at = "done" /\ controller.discovery # NoCall) =>
          /\ controller.discovery.ret.kind = "Ok"
          /\ IdsOfNodes(controller) = controller.discovery.ret.data

\* the controller that had node 3 asked again, the dongle did not answer,
\* and the list is empty
C37_Witness ==
    /\ controller.at = "failed"
    /\ controller.discovery.op = "get_node_ids"
    /\ controller.discovery.ret.kind = "Err"
    /\ controller.nodes = <<>>

-----------------------------------------------------------------------------
(* Claims about frames that stall (checked under SpecStall)                 *)

\* where the line times out first, 0 if it never does
StallAt(line) == FirstTimeout(line, Len(line))

\* the line starts with SOF and times out before the frame is complete: at
\* the length byte, or at one of the bytes the length byte counts
Stalls(line) ==
    /\ Len(line) >= 2
    /\ line[1] = SOF
    /\ StallAt(line) >= 2
    /\ StallAt(line) > 2 => StallAt(line) <= line[2] + 2

\* the line behind the timeout
BehindStall(line) == SubSeq(line, StallAt(line) + 1, Len(line))

\* C38: if a read times out after the SOF byte was consumed and before all
\* L + 2 bytes of the frame have arrived, read_single_msg returns
\* Io(TimedOut) without writing ACK or NAK and drops the bytes read so far;
\* the next attempt takes the next byte on the line, a byte from the middle
\* of that frame, as a frame header.
C38_StalledFrameIsDropped ==
    /\ (last.op = "read_single_msg" /\ Stalls(last.pre.line)) =>
          /\ last.first = Err("Io(TimedOut)")
          /\ last.tx = <<>>
          /\ wire = SubSeq(last.pre.line, 1, StallAt(last.pre.line))
          /\ messages = last.pre.msgs
    /\ ( /\ last.op = "read_single_msg_rty"
         /\ last.arg[1] >= 2
         /\ Stalls(last.pre.line)
         /\ BehindStall(last.pre.line) # <<>> ) =>
          /\ Len(wire) > StallAt(last.pre.line)
          /\ BehindStall(last.pre.line)[1] \in {ACK, NAK, CAN} =>
                /\ last.first = Ok(new_header(BehindStall(last.pre.line)[1]))
                /\ Len(wire) = StallAt(last.pre.line) + 1
                /\ last.tx = <<>>
          /\ BehindStall(last.pre.line)[1] \notin {SOF, ACK, NAK, CAN, Timeout} =>
                /\ last.first = Err("UnknownZWave")
                /\ Len(wire) = StallAt(last.pre.line) + 1
                /\ last.tx = <<>>
          /\ ( /\ BehindStall(last.pre.line)[1] = SOF
               /\ LineHoldsFrame(BehindStall(last.pre.line)) ) =>
                /\ Len(wire) = StallAt(last.pre.line)
                                  + BehindStall(last.pre.line)[2] + 2
                /\ Len(last.tx) = 1

\* a Response stalled after its length byte; the second attempt took its
\* type byte 0x01 for the SOF of a frame and its function byte 0x13 for a
\* length
C38_Witness ==
    /\ last.op = "read_single_msg_rty"
    /\ last.arg = <<2>>
    /\ Len(last.pre.line) > 5
    /\ SubSeq(last.pre.line, 1, 5) = <<SOF, 4, Timeout, 1, 19>>
    /\ Len(wire) > 5

-----------------------------------------------------------------------------
(* The calls of the Driver trait, one read attempt at a time               *)

\* chunks the dongle puts on the line while a call runs
MaxFeed == 2

\* the calls followed attempt by attempt
RunOps == {"write", "read", "get_node_ids", "get_node_generic_class"}

\* the waits of a call
Waits == {"drain", "ack", "response"}

\* a plausible slip: the ACK wait of the two queries gets the 10 tries of write
AckTriesOf_always_ten(op) == WriteAckTries

\* the argument of read_single_msg_rty at the ACK wait of op
AckTriesOf(op) == IF op = "write" THEN WriteAckTries ELSE QueryAckTries

\* the argument of read_single_msg_rty at the Response wait of op
ResponseTriesOf(op) ==
    IF op = "write" THEN ResponseTries ELSE QueryResponseTries

\* a call on its way.  phase: the wait it is in, or "returned"; left: the
\* counter of the running read_single_msg_rty; made: the attempts that
\* read_single_msg_rty has made so far, the failed one included; frames: the
\* frames the drain has consumed, one it panics on included; quiet: the attempts of the read_single_msg_rty that ended the
\* drain with Ok(true); from: the wait a returned call was in last; tx: the
\* bytes written
Run(op, arg, phase, left, made, frames, quiet, ret, tx) ==
    [op |-> op, arg |-> arg, phase |-> phase, from |-> "none", left |-> left,
     made |-> made, frames |-> frames, quiet |-> quiet, ret |-> ret,
     tx |-> tx]

\* the call returns ret
Returned(c, ret, wr) ==
    [c EXCEPT !.phase = "returned", !.from = c.phase, !.left = 0,
              !.ret = ret, !.tx = @ \o wr]

\* the driver's fields and the call after a step
Stepped(c, msgs, id) == [run |-> c, msgs |-> msgs, id |-> id]

\* read_single_msg_rty after an attempt that timed out: the counter is
\* counted down, and at 0 the next turn returns Io(TimedOut)
Retry(c) == [c EXCEPT !.left = @ - 1, !.made = @ + 1]

\* the request the call writes once the drain is over
RequestOf(c, id) ==
    IF c.op = "write" THEN write_request(c.arg, id)
    ELSE IF c.op = "get_node_ids"
    THEN get_command(SerialMsg_new(Request, DiscoveryNodes, <<>>))
    ELSE get_command(SerialMsg_new(Request, GetNodeProtocolInfo, c.arg))

\* write, get_node_ids, get_node_generic_class: port.write(request) and
\* the call of read_single_msg_rty for the ACK
step_send(c, msgs, id) ==
    Stepped([c EXCEPT !.phase = "ack", !.left = AckTriesOf(c.op), !.made = 0,
                      !.tx = @ \o RequestOf(c, id)], msgs, id)

\* read_all_msg returned Ok(true): what the call does before its next wait
step_drained(c, msgs, id, checks) ==
    IF c.op = "read"
    THEN IF Len(msgs) < 1
         THEN Stepped(Returned(c, RetErr("Io(Other)"), <<>>), msgs, id)
         ELSE Stepped(Returned(c, RetData(Head(msgs).data), <<>>),
                      Tail(msgs), id)
    ELSE IF c.op = "write"
    THEN IF get_next_msg_id(id, checks).panic
         THEN Stepped(Returned(c, RetPanic, <<>>), msgs, id)
         ELSE step_send(c, msgs, get_next_msg_id(id, checks).id)
    ELSE step_send(c, msgs, id)

\* read_all_msg has read a frame: it is one more attempt of the running
\* read_single_msg_rty and one more frame the drain has consumed
Consumed(c) == [c EXCEPT !.made = @ + 1, !.frames = @ + 1]

\* one attempt of the drain: r is what read_single_msg handed back
step_drain(c, r, msgs, id, checks) ==
    IF ~r.res.ok
    THEN IF r.res.err # "Io(TimedOut)"
         THEN Stepped(Returned(Retry(c), RetErr(r.res.err), r.wr), msgs, id)
         ELSE IF c.left > 1
         THEN Stepped(Retry(c), msgs, id)
         ELSE step_drained([c EXCEPT !.made = @ + 1, !.quiet = c.made + 1],
                           msgs, id, checks)
    ELSE IF SkipTest(r.res.msg) = "panic"
    THEN Stepped(Returned(Consumed(c), RetPanic, r.wr), msgs, id)
    ELSE Stepped([c EXCEPT !.left = DrainTries, !.made = 0,
                           !.frames = @ + 1, !.tx = @ \o r.wr],
                 IF SkipTest(r.res.msg) = "store" /\ StoreTest(r.res.msg)
                 THEN Append(msgs, r.res.msg) ELSE msgs,
                 id)

\* one attempt of the ACK wait
step_ack(c, r, msgs, id) ==
    IF ~r.res.ok
    THEN IF r.res.err = "Io(TimedOut)" /\ c.left > 1
         THEN Stepped(Retry(c), msgs, id)
         ELSE Stepped(Returned(Retry(c), RetErr(r.res.err), r.wr), msgs, id)
    ELSE IF r.res.msg.header # ACK
    THEN Stepped(Returned(Retry(c), RetErr("Io(InvalidData)"), r.wr), msgs, id)
    ELSE Stepped([c EXCEPT !.phase = "response",
                           !.left = ResponseTriesOf(c.op), !.made = 0,
                           !.tx = @ \o r.wr], msgs, id)

\* the value the call returns for the frame m read at the Response wait
step_answer(c, m, id) ==
    IF c.op = "write"
    THEN IF Refused(m) THEN RetErr("Io(InvalidData)") ELSE RetId(id)
    ELSE QueryDecode(c.op, m.data)

\* one attempt of the Response wait
step_response(c, r, msgs, id) ==
    IF ~r.res.ok
    THEN IF r.res.err = "Io(TimedOut)" /\ c.left > 1
         THEN Stepped(Retry(c), msgs, id)
         ELSE Stepped(Returned(Retry(c), RetErr(r.res.err), r.wr), msgs, id)
    ELSE Stepped(Returned(Retry(c), step_answer(c, r.res.msg, id), r.wr),
                 msgs, id)

\* one attempt of the wait the call is in
step(c, r, msgs, id, checks) ==
    IF c.phase = "drain" THEN step_drain(c, r, msgs, id, checks)
    ELSE IF c.phase = "ack" THEN step_ack(c, r, msgs, id)
    ELSE step_response(c, r, msgs, id)

\* what the dongle sends in one go while a call runs
StepChunks ==
    {<<ACK>>, <<255>>, RespAccepted, ReportSwitch, InfoSwitch, CallbackShort}

\* a call is on its way
Running == last.op \in RunOps /\ last.phase \in Waits

\* the call has returned
HasReturned == last.op \in RunOps /\ last.phase = "returned"

\* the dongle puts a chunk on the line
DongleFeed ==
    /\ sent < MaxFeed
    /\ \E c \in StepChunks : rx' = rx \o c
    /\ sent' = sent + 1
    /\ UNCHANGED <<message_id, messages, overflow_checks, last>>
    /\ UNCHANGED codecVars
    /\ UNCHANGED nodeVars

\* a thread enters one of the four functions: read_all_msg is called and
\* calls read_single_msg_rty(&3)
StepBegin ==
    /\ ~Running
    /\ \E op \in RunOps :
         \E arg \in (IF op = "write" THEN Commands
                     ELSE IF op = "get_node_generic_class"
                     THEN {<<n>> : n \in QueryNodes}
                     ELSE {<<>>}) :
            /\ op = "write" => message_id < MaxWrites
            /\ last' = Run(op, arg, "drain", DrainTries, 0, 0, 0,
                           RetErr("none"), <<>>)
    /\ UNCHANGED <<message_id, messages, rx, sent, overflow_checks>>
    /\ UNCHANGED codecVars
    /\ UNCHANGED nodeVars

\* the running call makes one attempt: read_single_msg returns, with a frame
\* or after the timeout of the port
StepAttempt ==
    /\ Running
    /\ LET r == read_single_msg(rx)
           s == step(last, r, messages, message_id, overflow_checks)
       IN  /\ rx' = r.rest
           /\ last' = s.run
           /\ messages' = s.msgs
           /\ message_id' = s.id
    /\ UNCHANGED <<sent, overflow_checks>>
    /\ UNCHANGED codecVars
    /\ UNCHANGED nodeVars

NextSteps == DongleFeed \/ StepBegin \/ StepAttempt

\* the calls attempt by attempt, with no assumption on the thread
SpecSteps == Init /\ [][NextSteps]_vars

\* the thread that runs the call is scheduled and every read of the port
\* returns, at the latest when its timeout is over: an attempt that can be
\* made is made.  This is weak fairness of StepAttempt, WF_vars(StepAttempt),
\* written out: StepAttempt is enabled exactly while a call is running, and
\* every attempt changes `last`
AttemptsAreMade == []<>(~Running) \/ []<><<StepAttempt>>_vars

\* the calls attempt by attempt on a thread that keeps running
SpecStepsFair == SpecSteps /\ AttemptsAreMade

-----------------------------------------------------------------------------
(* Claims about the termination of the calls                               *)

\* the attempts a wait of the call c may make: 3 in a row for the drain, 10
\* for an ACK or a Response, 5 for the ACK of the two queries
AttemptLimit(c, wait) ==
    IF wait = "drain" THEN 3
    ELSE IF wait = "ack" /\ c.op # "write" THEN 5
    ELSE 10

\* the wait the call is in makes another attempt only below its limit, and
\* a call that has returned made no more attempts than the limit of its
\* last wait
WithinLimits ==
    /\ Running => last.made < AttemptLimit(last, last.phase)
    /\ HasReturned => last.made <= AttemptLimit(last, last.from)

\* the call has left its drain with Ok(true)
PastDrain ==
    \/ Running /\ last.phase # "drain"
    \/ HasReturned /\ last.from # "drain"
    \/ HasReturned /\ last.op = "read" /\ last.ret.kind = "Ok"

\* a drain that is left was ended by 3 timed-out attempts in a row
DrainEndsOnSilence == PastDrain => last.quiet = 3

\* a frame the drain consumes puts the drain back to its 3 tries, however
\* many frames it has consumed, unless read_all_msg panics on the frame
FrameRestartsDrain ==
    [][(Running /\ last.phase = "drain" /\ last'.frames = last.frames + 1)
         => \/ last'.phase = "drain" /\ last'.left = 3 /\ last'.made = 0
            \/ HasReturned' /\ last'.ret.kind = "Panic"]_vars

\* C39: once the dongle sends no more, every call of write, read,
\* get_node_ids and get_node_generic_class returns; the drain is left after
\* 3 timed-out attempts in a row, an ACK or a Response wait makes at most 10
\* attempts (5 for the ACK of the two queries), and every frame the drain
\* consumes gives it 3 tries again, so that the number of frames it consumes
\* is bounded by what the dongle sends alone
C39_CallsTerminate ==
    /\ []WithinLimits
    /\ []DrainEndsOnSilence
    /\ FrameRestartsDrain
    /\ (Running ~> HasReturned)

\* a write that consumed every frame the dongle sent in its drain, left the
\* drain after 3 timed-out attempts and gave up the ACK wait after 10
C39_Witness ==
    /\ HasReturned /\ last.op = "write" /\ last.from = "ack"
    /\ last.frames = MaxFeed /\ last.quiet = 3 /\ last.made = 10
    /\ last.ret = RetErr("Io(TimedOut)")

-----------------------------------------------------------------------------
(* get_command and parse on payloads around the largest length a byte holds *)

\* longest payload encoded
MaxLongPayload == 258

\* payload lengths: short ones, and those around 252
PayloadLengths == {0, 1} \cup (248..MaxLongPayload)

\* a frame of each type, of four functions and of each payload length
LengthFrames ==
    {SerialMsg_new(t, f, Pattern(n, 17)) :
        t \in SerialMsgType, f \in SampleFuncs, n \in PayloadLengths}

InitLength ==
    /\ stage = "init"
    /\ frame \in LengthFrames
    /\ wire = <<>>
    /\ flip = 0
    /\ parsed = Unset
    /\ parsedDefs = Unset
    /\ InitDriverIdle
    /\ InitNodeIdle

NextLength == Encode \/ Parse

\* each frame is encoded, and the bytes are parsed
SpecLength == InitLength /\ [][NextLength]_vars

-----------------------------------------------------------------------------
(* Claims about the length byte                                            *)

\* the bytes of the encoded frame that follow its length byte
BytesAfterLength == Len(wire) - 2

\* parse did not refuse an encoded frame for its length byte: its answer is
\* the one it gives for the frame's type and function
LengthAccepted ==
    parsed.ok <=> frame.func \in SerialMsgFunction

\* C40: the length byte of an encoded frame is (payload length + 3) mod 256
\* and parse compares it with (len - 2) mod 256, so parse takes every
\* encoded frame; the length byte equals the number of bytes that follow it
\* exactly when the payload has at most 252 bytes, and is smaller than that
\* number for every longer payload
C40_LengthByteWraps ==
    (stage \in {"encoded", "parsed"} /\ frame.header = SOF) =>
        /\ wire[2] = (Len(frame.data) + 3) % 256
        /\ wire[2] = BytesAfterLength <=> Len(frame.data) <= 252
        /\ Len(frame.data) > 252 => wire[2] < BytesAfterLength
        /\ stage = "parsed" => LengthAccepted

\* a frame with 253 payload bytes was encoded with the length byte 0 in
\* front of 256 bytes, and parse took it
C40_Witness ==
    /\ stage = "parsed" /\ frame.header = SOF /\ Len(frame.data) = 253
    /\ wire[2] = 0 /\ BytesAfterLength = 256
    /\ parsed.ok /\ Len(parsed.msg.data) = 253

=============================================================================
